---- MODULE Spec2Model ----
(***************************************************************************)
(* Manifest-backed content store of HyPrism: the mod manifest              *)
(* (internal/mods), the world manifest and the backup engine               *)
(* (internal/worlds), with the file system they reconcile against.         *)
(*                                                                         *)
(* File names are sequences of dot-separated tokens (<<"a","jar">> is      *)
(* a.jar), so filepath.Ext and the ".disabled" suffix are computed, not    *)
(* assumed.  A path in the mods directory is its file name; the directory  *)
(* prefix is the same for every file and is left out.                      *)
(***************************************************************************)
EXTENDS Integers, Sequences, FiniteSets, TLC

VARIABLES
    now,          \* the local clock, in ticks (TicksPerSecond ticks a second)
    modFiles,     \* the mods directory: file name -> content
    modManifest,  \* the mod manifest file: [state, cat]
    pc,           \* per caller: the next I/O step of its mod operation
    op,           \* per caller: the operation's arguments and locals
    ret,          \* per caller: what its last completed operation returned
    runs,         \* per caller: operations begun (counted where callers race)
    pre,          \* per caller: the call and the manifest and files it began
                  \* with (recorded where callers race)
    updates,      \* per caller: the list its last CheckForUpdates returned
    cfret,        \* what the last call to the remote catalog returned
    worldDirs,    \* the worlds root: directory name -> directory
    backupDirs,   \* the backups root: directory name -> directory
    worldManifest,\* the world manifest file: [state, cat]
    wret          \* what the last world or backup operation returned

modVars == <<modFiles, modManifest, pc, op, ret, runs, pre, updates, cfret>>
worldVars == <<worldDirs, backupDirs, worldManifest, wret>>
vars == <<now, modVars, worldVars>>

----------------------------------------------------------------------------
(* Bounds *)

MaxClock == 2
MaxItem == 2
MaxFiles == 2
MaxRuns == 1
MaxBackups == 1
MaxEntries == 3
MaxNameLen == 3

TicksPerSecond == 2
MaxZoneLag == 1

Procs == {1, 2}
Items == 1..MaxItem
FileNames == {<<"a", "jar">>, <<"b", "jar">>}

----------------------------------------------------------------------------
(* Paths *)

\* filepath.Ext: the suffix from the final dot, empty if there is no dot.
Ext(p) == IF Len(p) >= 2 THEN p[Len(p)] ELSE ""

IsDisabledPath(p) == Ext(p) = "disabled"

\* oldPath + ".disabled"
AddDisabled(p) == Append(p, "disabled")

\* oldPath[:len(oldPath)-9]
StripDisabled(p) == SubSeq(p, 1, Len(p) - 1)

\* time.Now().Format(layout) for the layouts to the second: the sub-second
\* part of the clock is dropped.
FormatSeconds(t) == t \div TicksPerSecond

----------------------------------------------------------------------------
(* The file system *)

FsHas(fs, p) == p \in DOMAIN fs

FsWrite(fs, p, c) == [q \in DOMAIN fs \cup {p} |-> IF q = p THEN c ELSE fs[q]]

FsRemove(fs, p) == [q \in DOMAIN fs \ {p} |-> fs[q]]

\* os.Rename of an existing file; an existing target is replaced.
FsRename(fs, old, new) ==
    [q \in (DOMAIN fs \ {old}) \cup {new} |-> IF q = new THEN fs[old] ELSE fs[q]]

EmptyFs == [q \in {} |-> 0]

\* What a file in the mods directory holds: the complete download of a
\* remote file, or the beginning of one.
FullContent(item) == [item |-> item, complete |-> TRUE]

PartialContent(item) == [item |-> item, complete |-> FALSE]

----------------------------------------------------------------------------
(* Mod manifest: types *)

ModID(cfid) == <<"cf", cfid>>

EmptyModCat == [mods |-> <<>>, null |-> FALSE, version |-> "1.0"]

AbsentFile == [state |-> "absent", cat |-> EmptyModCat]
PartialFile == [state |-> "partial", cat |-> EmptyModCat]
OkFile(cat) == [state |-> "ok", cat |-> cat]

NoFileRec == [FileName |-> <<>>, FileDate |-> 0, DisplayName |-> <<>>, HasURL |-> FALSE]

NoMod ==
    [ID |-> <<>>, Version |-> <<>>, CurseForgeID |-> 0, Enabled |-> FALSE,
     InstalledAt |-> 0, UpdatedAt |-> 0, FilePath |-> <<>>]

\* What is recorded of a call: its arguments, and the manifest and the
\* files it began with.
NoCall ==
    [kind |-> "none", modID |-> <<>>, enabled |-> FALSE, item |-> 0,
     file |-> NoFileRec, manifest |-> AbsentFile, files |-> EmptyFs]

NoOp ==
    [kind |-> "none", modID |-> <<>>, enabled |-> FALSE, item |-> 0,
     file |-> NoFileRec, dest |-> <<>>, mod |-> NoMod, cat |-> EmptyModCat,
     idx |-> 0, oldPath |-> <<>>, newPath |-> <<>>]

\* The files a remote item can offer: an older a.jar, a newer b.jar, and a
\* newer a.jar whose author disabled distribution (no download URL).
RemoteFiles ==
    {[FileName |-> <<"a", "jar">>, FileDate |-> 1, DisplayName |-> <<"a", 1>>, HasURL |-> TRUE],
     [FileName |-> <<"b", "jar">>, FileDate |-> 2, DisplayName |-> <<"b", 2>>, HasURL |-> TRUE],
     [FileName |-> <<"a", "jar">>, FileDate |-> 2, DisplayName |-> <<"a", 2>>, HasURL |-> FALSE]}

SeqsUpTo(S, n) == UNION {[1..k -> S] : k \in 0..n}

----------------------------------------------------------------------------
(* Mod manifest: the pure parts of internal/mods *)

\* LoadManifest without the os.IsNotExist branch: an absent file is an
\* error like any other read failure.
ModLoadManifestStrict(f) ==
    IF f.state = "ok" THEN [ok |-> TRUE, cat |-> f.cat]
    ELSE [ok |-> FALSE, cat |-> EmptyModCat]

\* LoadManifest: an absent file is the empty catalog, version "1.0"; a file
\* that does not parse is an error.
ModLoadManifest(f) ==
    IF f.state = "absent" THEN [ok |-> TRUE, cat |-> EmptyModCat]
    ELSE IF f.state = "ok" THEN [ok |-> TRUE, cat |-> f.cat]
    ELSE [ok |-> FALSE, cat |-> EmptyModCat]

\* for i, m := range manifest.Mods { if m.ID == id {...; return} }:
\* the first index holding the id, 0 when there is none.
IndexOfID(mods, id) ==
    IF \E i \in 1..Len(mods) : mods[i].ID = id
    THEN CHOOSE i \in 1..Len(mods) :
            /\ mods[i].ID = id
            /\ \A j \in 1..(i - 1) : mods[j].ID # id
    ELSE 0

\* AddMod without the search for the id: the entry is always appended.
AddModAppends(cat, mod) ==
    [cat EXCEPT !.mods = Append(cat.mods, mod), !.null = FALSE]

\* AddMod between its load and its save: replace the entry with the same
\* id in place, or append.
AddModCat(cat, mod) ==
    LET i == IndexOfID(cat.mods, mod.ID) IN
    IF i # 0
    THEN [cat EXCEPT !.mods[i] = mod]
    ELSE [cat EXCEPT !.mods = Append(cat.mods, mod), !.null = FALSE]

IDDiffers(m, id) == m.ID # id

\* RemoveMod's loop: newMods (var newMods []Mod stays nil when nothing is
\* appended to it).
RemoveModCat(cat, id) ==
    LET newMods == SelectSeq(cat.mods, LAMBDA m : IDDiffers(m, id)) IN
    [cat EXCEPT !.mods = newMods, !.null = (newMods = <<>>)]

\* RemoveMod's modToRemove = &m when the loop variable is per iteration (a
\* module that declares Go 1.22 or later): the entry the loop last
\* matched, NoMod for nil.
ModToRemove(mods, id) ==
    IF \E i \in 1..Len(mods) : mods[i].ID = id
    THEN mods[CHOOSE i \in 1..Len(mods) :
                /\ mods[i].ID = id
                /\ \A j \in (i + 1)..Len(mods) : mods[j].ID # id]
    ELSE NoMod

\* modToRemove = &m when the loop variable is one variable for the whole
\* loop (a module that declares an earlier Go): the pointer is to that
\* variable, which holds the last entry of the list when the loop ends.
ModToRemoveShared(mods, id) ==
    IF \E i \in 1..Len(mods) : mods[i].ID = id THEN mods[Len(mods)] ELSE NoMod

\* What *modToRemove can be after the loop: the module file that fixes the
\* language version is not part of the source.
ModToRemoveOutcomes(mods, id) == {ModToRemove(mods, id), ModToRemoveShared(mods, id)}

\* ToggleMod's newPath.
ToggleNewPath(oldPath, enabled) ==
    IF enabled /\ IsDisabledPath(oldPath) THEN StripDisabled(oldPath)
    ELSE IF ~enabled /\ ~IsDisabledPath(oldPath) THEN AddDisabled(oldPath)
    ELSE oldPath

\* DownloadMod's choice of file: the first of LatestFiles, replaced by each
\* later file whose FileDate is strictly greater.
RECURSIVE LatestFrom(_, _, _)
LatestFrom(files, i, latestFile) ==
    IF i > Len(files) THEN latestFile
    ELSE LatestFrom(files, i + 1,
            IF files[i].FileDate > latestFile.FileDate THEN files[i] ELSE latestFile)

\* latestFile := cfMod.LatestFiles[0] without the loop over the list.
SelectFirst(files) == files[1]

SelectLatest(files) == LatestFrom(files, 1, files[1])

\* DownloadMod's Mod literal.
BuildMod(item, file, dest, t) ==
    [ID |-> ModID(item), Version |-> file.DisplayName, CurseForgeID |-> item,
     Enabled |-> TRUE, InstalledAt |-> FormatSeconds(t),
     UpdatedAt |-> FormatSeconds(t), FilePath |-> dest]

\* An HTTP response of the catalog service: its status, and its body,
\* which is the {"data": ...} envelope around a payload, the envelope with
\* "data": null, some other JSON object (an error object, say), or text
\* that is not JSON.  NoResponse is a request that got no response.
StatusOK == 200
StatusNotFound == 404
StatusServerError == 500

Statuses == {StatusOK, StatusNotFound, StatusServerError}

Envelope(payload) == [kind |-> "envelope", data |-> payload]
NullEnvelope == [kind |-> "null", data |-> <<>>]
OtherObject == [kind |-> "object", data |-> <<>>]
NotJSON == [kind |-> "text", data |-> <<>>]

NoResponse == [status |-> 0, body |-> NotJSON]

\* What a remote call returns: the data and a nil error, or an error; the
\* status is kept where the error message carries it.
NoAnswer == [call |-> "none", outcome |-> "none", status |-> 0, data |-> <<>>]
Answer(call, outcome, status, data) ==
    [call |-> call, outcome |-> outcome, status |-> status, data |-> data]

\* json.NewDecoder(resp.Body).Decode(&cfResp), then
\* json.Unmarshal(cfResp.Data, &v): text that is not JSON fails the first,
\* an object without "data" leaves cfResp.Data empty and fails the second,
\* and "data": null decodes to the zero value.
Decoded(call, body) ==
    IF body.kind \in {"text", "object"} THEN Answer(call, "err_decode", 0, <<>>)
    ELSE Answer(call, "ok", 0, body.data)

\* SearchMods: a status other than 200 is an error carrying the status.
SearchMods(resp) ==
    IF resp = NoResponse THEN Answer("SearchMods", "err_transport", 0, <<>>)
    ELSE IF resp.status # StatusOK THEN Answer("SearchMods", "err_api", resp.status, <<>>)
    ELSE Decoded("SearchMods", resp.body)

\* GetModDetails: a status other than 200 is "mod not found: <id>".
GetModDetails(resp) ==
    IF resp = NoResponse THEN Answer("GetModDetails", "err_transport", 0, <<>>)
    ELSE IF resp.status # StatusOK THEN Answer("GetModDetails", "err_notfound", 0, <<>>)
    ELSE Decoded("GetModDetails", resp.body)

\* GetModFiles and GetCategories decode the body whatever the status.
GetModFiles(resp) ==
    IF resp = NoResponse THEN Answer("GetModFiles", "err_transport", 0, <<>>)
    ELSE Decoded("GetModFiles", resp.body)

GetCategories(resp) ==
    IF resp = NoResponse THEN Answer("GetCategories", "err_transport", 0, <<>>)
    ELSE Decoded("GetCategories", resp.body)

\* What GetModDetails answers for one remote id: an error (transport
\* failure, a status other than 200, a body that does not decode), or the
\* item with its LatestFiles.
RemoteDown == [ok |-> FALSE, files |-> <<>>]
RemoteItem(files) == [ok |-> TRUE, files |-> files]

\* for _, file := range cfMod.LatestFiles { if file.FileDate > mod.UpdatedAt }
HasNewerFile(mod, files) == \E k \in 1..Len(files) : files[k].FileDate > mod.UpdatedAt

\* CheckForUpdates' loop body: whether the entry is appended.
HasUpdate(mod, remote) ==
    /\ mod.CurseForgeID # 0
    /\ remote[mod.CurseForgeID].ok
    /\ HasNewerFile(mod, remote[mod.CurseForgeID].files)

\* CheckForUpdates' loop: the entries appended, in the order of the range.
ModsWithUpdates(mods, remote) == SelectSeq(mods, LAMBDA m : HasUpdate(m, remote))

----------------------------------------------------------------------------
(* Mod operations, one action per I/O step *)

\* The operation returns: its locals are gone.
Return(p, code) ==
    /\ pc' = [pc EXCEPT ![p] = "idle"]
    /\ ret' = [ret EXCEPT ![p] = code]
    /\ op' = [op EXCEPT ![p] = NoOp]

Goto(p, label) ==
    /\ pc' = [pc EXCEPT ![p] = label]
    /\ UNCHANGED ret

Begin(p, o, label) ==
    /\ pc[p] = "idle"
    /\ op' = [op EXCEPT ![p] = o]
    /\ pc' = [pc EXCEPT ![p] = label]
    /\ ret' = [ret EXCEPT ![p] = "none"]
    /\ UNCHANGED <<worldVars, now, modFiles, modManifest, updates, cfret>>

BeginToggle(p, id, enabled) ==
    Begin(p, [NoOp EXCEPT !.kind = "toggle", !.modID = id, !.enabled = enabled], "load")

BeginRemove(p, id) ==
    Begin(p, [NoOp EXCEPT !.kind = "remove", !.modID = id], "load")

BeginGetInstalled(p) ==
    Begin(p, [NoOp EXCEPT !.kind = "list"], "load")

\* DownloadMod up to the transfer without the DownloadURL == "" test: only
\* an empty file list is refused.
BeginDownloadAnyURL(p, item, files) ==
    /\ pc[p] = "idle"
    /\ UNCHANGED <<worldVars, now, modFiles, modManifest, updates, cfret>>
    /\ IF Len(files) = 0
       THEN Return(p, "err_validation")
       ELSE LET latestFile == SelectLatest(files) IN
            /\ op' = [op EXCEPT ![p] = [NoOp EXCEPT !.kind = "download",
                               !.item = item, !.file = latestFile,
                               !.dest = latestFile.FileName]]
            /\ pc' = [pc EXCEPT ![p] = "xfer_start"]
            /\ ret' = [ret EXCEPT ![p] = "none"]

\* DownloadMod up to the transfer: no file, or no download URL on the
\* chosen file, is an error before anything is written.
BeginDownload(p, item, files) ==
    /\ pc[p] = "idle"
    /\ UNCHANGED <<worldVars, now, modFiles, modManifest, updates, cfret>>
    /\ IF Len(files) = 0
       THEN Return(p, "err_validation")
       ELSE LET latestFile == SelectLatest(files) IN
            IF ~latestFile.HasURL
            THEN Return(p, "err_validation")
            ELSE /\ op' = [op EXCEPT ![p] = [NoOp EXCEPT !.kind = "download",
                                    !.item = item, !.file = latestFile,
                                    !.dest = latestFile.FileName]]
                 /\ pc' = [pc EXCEPT ![p] = "xfer_start"]
                 /\ ret' = [ret EXCEPT ![p] = "none"]

\* download.DownloadFile creates the destination and starts writing it.
XferStart(p) ==
    /\ pc[p] = "xfer_start"
    /\ modFiles' = FsWrite(modFiles, op[p].dest, PartialContent(op[p].item))
    /\ Goto(p, "xfer")
    /\ UNCHANGED <<worldVars, now, modManifest, op, runs, pre, updates, cfret>>

\* The transfer completes; DownloadMod builds the entry and calls AddMod.
XferOk(p) ==
    /\ pc[p] = "xfer"
    /\ modFiles' = FsWrite(modFiles, op[p].dest, FullContent(op[p].item))
    /\ op' = [op EXCEPT ![p].mod = BuildMod(op[p].item, op[p].file, op[p].dest, now)]
    /\ Goto(p, "load")
    /\ UNCHANGED <<worldVars, now, modManifest, runs, pre, updates, cfret>>

\* The transfer fails or is cancelled, before or after the destination
\* was created.
XferFail(p) ==
    /\ pc[p] \in {"xfer_start", "xfer"}
    /\ Goto(p, "cleanup")
    /\ UNCHANGED <<worldVars, now, modFiles, modManifest, op, runs, pre, updates, cfret>>

\* Cleanup without the os.Remove: the error is returned and the file stays.
CleanupKeepsFile(p) ==
    /\ pc[p] = "cleanup"
    /\ Return(p, "err_xfer")
    /\ UNCHANGED <<worldVars, now, modFiles, modManifest, runs, pre, updates, cfret>>

\* os.Remove(destPath) on the error path, then the error is returned.
Cleanup(p) ==
    /\ pc[p] = "cleanup"
    /\ modFiles' = FsRemove(modFiles, op[p].dest)
    /\ Return(p, "err_xfer")
    /\ UNCHANGED <<worldVars, now, modManifest, runs, pre, updates, cfret>>

\* LoadManifest and what the operation computes in memory before its next
\* system call.
LoadStep(p) ==
    /\ pc[p] = "load"
    /\ UNCHANGED <<worldVars, now, modFiles, modManifest, runs, pre, updates, cfret>>
    /\ LET r == ModLoadManifest(modManifest)
           o == op[p]
           i == IndexOfID(r.cat.mods, o.modID)
       IN
       IF ~r.ok THEN Return(p, "err_load")
       ELSE IF o.kind = "list" THEN Return(p, "listed")
       ELSE IF o.kind = "download"
       THEN /\ op' = [op EXCEPT ![p].cat = AddModCat(r.cat, o.mod)]
            /\ Goto(p, "save_open")
       ELSE IF i = 0 THEN Return(p, "err_notfound")
       ELSE IF o.kind = "toggle"
       THEN LET oldPath == r.cat.mods[i].FilePath
                newPath == ToggleNewPath(oldPath, o.enabled)
            IN
            /\ op' = [op EXCEPT ![p].cat = [r.cat EXCEPT !.mods[i].Enabled = o.enabled],
                                ![p].idx = i,
                                ![p].oldPath = oldPath,
                                ![p].newPath = newPath]
            /\ Goto(p, IF oldPath # newPath THEN "rename" ELSE "save_open")
       ELSE \E modToRemove \in ModToRemoveOutcomes(r.cat.mods, o.modID) :
            /\ op' = [op EXCEPT ![p].cat = RemoveModCat(r.cat, o.modID),
                                ![p].oldPath = modToRemove.FilePath]
            /\ Goto(p, IF modToRemove.FilePath # <<>> THEN "rmfile" ELSE "save_open")

\* ToggleMod's os.Rename, with the renamed entry also stamped as updated
\* now.
RenameStepStamps(p) ==
    /\ pc[p] = "rename"
    /\ UNCHANGED <<worldVars, now, modManifest, runs, pre, updates, cfret>>
    /\ IF FsHas(modFiles, op[p].oldPath)
       THEN /\ modFiles' = FsRename(modFiles, op[p].oldPath, op[p].newPath)
            /\ op' = [op EXCEPT ![p].cat.mods[op[p].idx].FilePath = op[p].newPath,
                                ![p].cat.mods[op[p].idx].UpdatedAt = FormatSeconds(now) + 1]
            /\ Goto(p, "save_open")
       ELSE /\ Return(p, "err_rename")
            /\ UNCHANGED modFiles

\* ToggleMod's os.Rename: an error returns before the save.
RenameStep(p) ==
    /\ pc[p] = "rename"
    /\ UNCHANGED <<worldVars, now, modManifest, runs, pre, updates, cfret>>
    /\ IF FsHas(modFiles, op[p].oldPath)
       THEN /\ modFiles' = FsRename(modFiles, op[p].oldPath, op[p].newPath)
            /\ op' = [op EXCEPT ![p].cat.mods[op[p].idx].FilePath = op[p].newPath]
            /\ Goto(p, "save_open")
       ELSE /\ Return(p, "err_rename")
            /\ UNCHANGED modFiles

\* RemoveMod's os.Remove: a file that is already gone is not an error.
RmFileStep(p) ==
    /\ pc[p] = "rmfile"
    /\ modFiles' = FsRemove(modFiles, op[p].oldPath)
    /\ Goto(p, "save_open")
    /\ UNCHANGED <<worldVars, now, modManifest, op, runs, pre, updates, cfret>>

\* SaveManifest, os.WriteFile: the file is opened with O_TRUNC ...
SaveOpen(p) ==
    /\ pc[p] = "save_open"
    /\ modManifest' = PartialFile
    /\ Goto(p, "save_write")
    /\ UNCHANGED <<worldVars, now, modFiles, op, runs, pre, updates, cfret>>

\* ... and the marshalled catalog is written and the file closed.
SaveWrite(p) ==
    /\ pc[p] = "save_write"
    /\ modManifest' = OkFile(op[p].cat)
    /\ Return(p, "ok")
    /\ UNCHANGED <<worldVars, now, modFiles, runs, pre, updates, cfret>>

\* SaveManifest returns an error (MkdirAll or the open fails): the file is
\* as it was.
SaveFail(p) ==
    /\ pc[p] = "save_open"
    /\ Return(p, "err_save")
    /\ UNCHANGED <<worldVars, now, modFiles, modManifest, runs, pre, updates, cfret>>

\* The process stops; the files stay as they are and the callers restart.
Crash ==
    /\ \E p \in Procs : pc[p] # "idle"
    /\ pc' = [p \in Procs |-> "idle"]
    /\ ret' = [p \in Procs |-> IF pc[p] # "idle" THEN "crashed" ELSE ret[p]]
    /\ op' = [p \in Procs |-> NoOp]
    /\ UNCHANGED <<worldVars, now, modFiles, modManifest, runs, pre, updates, cfret>>

\* CheckForUpdates: GetInstalledMods (one read of the manifest), then one
\* GetModDetails per entry with a remote id; nothing is written.  remote
\* is what the catalog service answers during the call.
CheckForUpdates(p, remote) ==
    /\ pc[p] = "idle"
    /\ LET r == ModLoadManifest(modManifest) IN
       IF ~r.ok
       THEN /\ ret' = [ret EXCEPT ![p] = "err_load"]
            /\ updates' = [updates EXCEPT ![p] = <<>>]
       ELSE /\ ret' = [ret EXCEPT ![p] = "checked"]
            /\ updates' = [updates EXCEPT ![p] = ModsWithUpdates(r.cat.mods, remote)]
    /\ UNCHANGED <<worldVars, now, modFiles, modManifest, pc, op, runs, pre, cfret>>

\* A call to the remote catalog, answered with resp; nothing local changes.
RemoteCall(call, resp) ==
    /\ cfret' = IF call = "SearchMods" THEN SearchMods(resp)
                ELSE IF call = "GetModDetails" THEN GetModDetails(resp)
                ELSE IF call = "GetModFiles" THEN GetModFiles(resp)
                ELSE GetCategories(resp)
    /\ UNCHANGED <<worldVars, now, modFiles, modManifest, pc, op, ret, runs, pre, updates>>


----------------------------------------------------------------------------
(* Worlds and backups: types *)

\* A directory under the worlds root or the backups root: its regular
\* files (relative name -> size in bytes) and its modification time.
Dir(files, mtime) == [files |-> files, mtime |-> mtime]

NoFiles == [f \in {} |-> 0]

\* filepath.Walk visits the files of a directory in lexical order.
WalkOrder == <<"level.dat", "r.dat">>

\* What the game writes for a new save: a small world, a larger one, and a
\* directory without a marker file (not a world).
WorldTemplates ==
    {[f \in {"level.dat"} |-> 1],
     [f \in {"level.dat", "r.dat"} |-> IF f = "level.dat" THEN 1 ELSE 2],
     [f \in {"r.dat"} |-> 2]}

WorldNames == {<<"w1">>, <<"w2">>}
DisplayNames == {<<"n">>}

WorldPath(name) == <<"worlds">> \o name
BackupPath(name) == <<"backups">> \o name

EmptyWorldCat == [worlds |-> <<>>, null |-> FALSE, version |-> "1.0"]

AbsentWorldFile == [state |-> "absent", cat |-> EmptyWorldCat]
PartialWorldFile == [state |-> "partial", cat |-> EmptyWorldCat]
OkWorldFile(cat) == [state |-> "ok", cat |-> cat]

NoWorld ==
    [ID |-> <<>>, Name |-> <<>>, Path |-> <<>>, CreatedAt |-> 0, LastPlayed |-> 0,
     SizeBytes |-> 0, GameMode |-> "", Seed |-> "", IsBackup |-> FALSE, BackupOf |-> <<>>]

NoResult ==
    [op |-> "none", code |-> "none", id |-> <<>>, worlds |-> <<>>, world |-> NoWorld]

Result(o, c, i, ws, w) == [op |-> o, code |-> c, id |-> i, worlds |-> ws, world |-> w]

----------------------------------------------------------------------------
(* Worlds and backups: the pure parts of internal/worlds *)

\* LoadManifest (worlds).
WorldLoadManifest(f) ==
    IF f.state = "absent" THEN [ok |-> TRUE, cat |-> EmptyWorldCat]
    ELSE IF f.state = "ok" THEN [ok |-> TRUE, cat |-> f.cat]
    ELSE [ok |-> FALSE, cat |-> EmptyWorldCat]

\* calculateDirSize: the sizes of the regular files, summed.
RECURSIVE SumSizes(_, _)
SumSizes(files, names) ==
    IF names = {} THEN 0
    ELSE LET f == CHOOSE x \in names : TRUE IN files[f] + SumSizes(files, names \ {f})

calculateDirSize(d) == SumSizes(d.files, DOMAIN d.files)

\* ScanWorlds' validity test: level.dat, or else world.json.
IsWorldDir(d) == "level.dat" \in DOMAIN d.files \/ "world.json" \in DOMAIN d.files

\* The files copyDir has written when it stops after k files of the walk.
CopiedFiles(src, k) ==
    LET copied == {WalkOrder[i] : i \in 1..k} \cap DOMAIN src.files IN
    [f \in copied |-> src.files[f]]

FilesToCopy(src) == Cardinality({i \in 1..Len(WalkOrder) : WalkOrder[i] \in DOMAIN src.files})

\* The index in the walk after which k files of src have been copied.
WalkPrefix(src, k) ==
    IF k = 0 THEN 0
    ELSE CHOOSE n \in 1..Len(WalkOrder) :
            /\ WalkOrder[n] \in DOMAIN src.files
            /\ Cardinality({i \in 1..n : WalkOrder[i] \in DOMAIN src.files}) = k

\* copyDir(src, dst) on the directories of one root, stopped after k files
\* (k = FilesToCopy(src) is the whole copy): MkdirAll on the destination,
\* then one copyFile per file; files already in the destination stay.
copyDir(root, src, dstName, k, t) ==
    LET copied == CopiedFiles(src, WalkPrefix(src, k))
        old == IF dstName \in DOMAIN root THEN root[dstName].files ELSE NoFiles
        merged == [f \in DOMAIN old \cup DOMAIN copied |->
                        IF f \in DOMAIN copied THEN copied[f] ELSE old[f]]
    IN [n \in DOMAIN root \cup {dstName} |->
            IF n = dstName THEN Dir(merged, t) ELSE root[n]]

RemoveDir(root, name) == [n \in DOMAIN root \ {name} |-> root[n]]

NoDirs == [n \in {} |-> Dir(NoFiles, 0)]

\* filepath.Join(GetBackupsDir(), name), which also cleans the result.  A
\* name is its parts, joined by "_"; the part "../worlds/" is a string
\* that leads out of the backups root and into the worlds root.  The empty
\* string gives the backups root itself, "../worlds/" the worlds root, and
\* "../worlds/" followed by "_" and more parts a directory of the worlds
\* root whose name begins with "_".
JoinBackupsDir(name) ==
    IF name = <<>> THEN <<"backups">>
    ELSE IF Head(name) = "../worlds/"
    THEN (IF Tail(name) = <<>> THEN <<"worlds">> ELSE <<"worlds", "">> \o Tail(name))
    ELSE BackupPath(name)

\* os.RemoveAll(path) as one root sees it: the root goes with everything
\* in it, or the one directory of the root that path names.
RemoveAllIn(root, rootName, path) ==
    IF path = <<rootName>> THEN NoDirs
    ELSE IF Head(path) = rootName THEN RemoveDir(root, Tail(path))
    ELSE root

\* existingWorlds[path]: the map keeps the last entry of the manifest with
\* that path.
HasExisting(worlds, path) == \E i \in 1..Len(worlds) : worlds[i].Path = path

Existing(worlds, path) ==
    worlds[CHOOSE i \in 1..Len(worlds) :
                /\ worlds[i].Path = path
                /\ \A j \in (i + 1)..Len(worlds) : worlds[j].Path # path]

\* ScanWorlds' World literal for one valid directory, with the fields
\* carried over from the manifest entry of the same path.
ScannedWorld(name, d, worlds) ==
    LET fresh ==
            [ID |-> name, Name |-> name, Path |-> WorldPath(name),
             CreatedAt |-> FormatSeconds(d.mtime), LastPlayed |-> FormatSeconds(d.mtime),
             SizeBytes |-> calculateDirSize(d), GameMode |-> "Survival", Seed |-> "",
             IsBackup |-> FALSE, BackupOf |-> <<>>]
    IN IF HasExisting(worlds, WorldPath(name))
       THEN LET existing == Existing(worlds, WorldPath(name)) IN
            [fresh EXCEPT !.Name = existing.Name, !.CreatedAt = existing.CreatedAt,
                          !.GameMode = existing.GameMode, !.Seed = existing.Seed]
       ELSE fresh

\* The directories ScanWorlds keeps: not "backups", and valid.
ScannedNames(dirs) == {n \in DOMAIN dirs : n # <<"backups">> /\ IsWorldDir(dirs[n])}

\* sort.Slice with less = (LastPlayed[i] > LastPlayed[j]): every order of
\* the scanned worlds that is descending in LastPlayed (the sort is not
\* stable).
ScanOrders(dirs, worlds) ==
    LET names == ScannedNames(dirs)
        n == Cardinality(names)
    IN {[i \in 1..n |-> ScannedWorld(f[i], dirs[f[i]], worlds)] :
            f \in {g \in [1..n -> names] :
                    /\ \A i, j \in 1..n : g[i] = g[j] => i = j
                    /\ \A i, j \in 1..n : i < j =>
                        FormatSeconds(dirs[g[i]].mtime) >= FormatSeconds(dirs[g[j]].mtime)}}

\* manifest.Worlds = worlds: var worlds []World is nil when no directory
\* was appended.
ScannedCat(cat, ws) == [cat EXCEPT !.worlds = ws, !.null = (ws = <<>>)]

IndexOfWorld(worlds, id) ==
    IF \E i \in 1..Len(worlds) : worlds[i].ID = id
    THEN CHOOSE i \in 1..Len(worlds) :
            /\ worlds[i].ID = id
            /\ \A j \in 1..(i - 1) : worlds[j].ID # id
    ELSE 0

WorldIDDiffers(w, id) == w.ID # id

\* DeleteWorld's filter.
DeleteWorldCat(cat, id) ==
    LET newWorlds == SelectSeq(cat.worlds, LAMBDA w : WorldIDDiffers(w, id)) IN
    [cat EXCEPT !.worlds = newWorlds, !.null = (newWorlds = <<>>)]

\* time.Now().Format("2006-01-02_15-04-05") and Format("20060102150405"):
\* the second, as text.
Stamp(t) == ToString(FormatSeconds(t))

\* fmt.Sprintf("%s_backup_%s", world.Name, timestamp)
BackupName(world, t) == world.Name \o <<"backup", Stamp(t)>>

\* fmt.Sprintf("restored_%s", timestamp)
RestoredID(t) == <<"restored", Stamp(t)>>

\* BackupWorld's World literal.
BackupObject(world, worldID, name, d, t) ==
    [ID |-> name, Name |-> name, Path |-> JoinBackupsDir(name),
     CreatedAt |-> FormatSeconds(t), LastPlayed |-> world.LastPlayed,
     SizeBytes |-> calculateDirSize(d), GameMode |-> world.GameMode, Seed |-> world.Seed,
     IsBackup |-> TRUE, BackupOf |-> worldID]

\* The World literal of a restore that keeps the backup's mark.
RestoredWorldMarked(worldID, backupID, d, t) ==
    [ID |-> worldID, Name |-> <<"Restored">> \o backupID, Path |-> WorldPath(worldID),
     CreatedAt |-> FormatSeconds(t), LastPlayed |-> FormatSeconds(t),
     SizeBytes |-> calculateDirSize(d), GameMode |-> "Survival", Seed |-> "",
     IsBackup |-> TRUE, BackupOf |-> <<>>]

\* RestoreBackup's World literal.
RestoredWorld(worldID, backupID, d, t) ==
    [ID |-> worldID, Name |-> <<"Restored">> \o backupID, Path |-> WorldPath(worldID),
     CreatedAt |-> FormatSeconds(t), LastPlayed |-> FormatSeconds(t),
     SizeBytes |-> calculateDirSize(d), GameMode |-> "Survival", Seed |-> "",
     IsBackup |-> FALSE, BackupOf |-> <<>>]

----------------------------------------------------------------------------
(* World operations, one action per call.  saveOk says whether a
   SaveManifest of the call succeeds (a failed one leaves the file as it
   was); k is the number of files copyDir copies before it stops. *)

SavedWorldFile(saveOk, cat) == IF saveOk THEN OkWorldFile(cat) ELSE worldManifest

\* ScanWorlds.  manifest, _ := LoadManifest() leaves manifest nil when the
\* file does not parse, and manifest.Worlds then panics.  The result of
\* SaveManifest is discarded.
ScanWorlds(saveOk) ==
    /\ UNCHANGED <<now, worldDirs, backupDirs, modVars>>
    /\ LET l == WorldLoadManifest(worldManifest) IN
       IF ~l.ok
       THEN /\ wret' = Result("ScanWorlds", "panic", <<>>, <<>>, NoWorld)
            /\ UNCHANGED worldManifest
       ELSE \E ws \in ScanOrders(worldDirs, l.cat.worlds) :
            /\ worldManifest' = SavedWorldFile(saveOk, ScannedCat(l.cat, ws))
            /\ wret' = Result("ScanWorlds", "ok", <<>>, ws, NoWorld)

\* RenameWorld.
RenameWorld(worldID, newName, saveOk) ==
    /\ UNCHANGED <<now, worldDirs, backupDirs, modVars>>
    /\ LET l == WorldLoadManifest(worldManifest)
           i == IndexOfWorld(l.cat.worlds, worldID)
       IN
       IF ~l.ok
       THEN /\ wret' = Result("RenameWorld", "err_load", worldID, <<>>, NoWorld)
            /\ UNCHANGED worldManifest
       ELSE IF i = 0
       THEN /\ wret' = Result("RenameWorld", "err_notfound", worldID, <<>>, NoWorld)
            /\ UNCHANGED worldManifest
       ELSE /\ worldManifest' = SavedWorldFile(saveOk, [l.cat EXCEPT !.worlds[i].Name = newName])
            /\ wret' = Result("RenameWorld", IF saveOk THEN "ok" ELSE "err_save",
                              worldID, <<>>, NoWorld)

\* DeleteWorld: GetWorld (a ScanWorlds), os.RemoveAll, then load, filter
\* and save.
DeleteWorld(worldID, scanSaveOk, saveOk) ==
    /\ UNCHANGED <<now, backupDirs, modVars>>
    /\ LET l == WorldLoadManifest(worldManifest) IN
       IF ~l.ok
       THEN /\ wret' = Result("DeleteWorld", "panic", worldID, <<>>, NoWorld)
            /\ UNCHANGED <<worldManifest, worldDirs>>
       ELSE \E ws \in ScanOrders(worldDirs, l.cat.worlds) :
            LET scanned == SavedWorldFile(scanSaveOk, ScannedCat(l.cat, ws))
                i == IndexOfWorld(ws, worldID)
                l2 == WorldLoadManifest(scanned)
            IN
            IF i = 0
            THEN /\ worldManifest' = scanned
                 /\ wret' = Result("DeleteWorld", "err_notfound", worldID, <<>>, NoWorld)
                 /\ UNCHANGED worldDirs
            ELSE /\ worldDirs' = RemoveDir(worldDirs, ws[i].ID)
                 /\ IF ~l2.ok
                    THEN /\ worldManifest' = scanned
                         /\ wret' = Result("DeleteWorld", "err_load", worldID, <<>>, NoWorld)
                    ELSE /\ worldManifest' =
                                IF saveOk THEN OkWorldFile(DeleteWorldCat(l2.cat, worldID))
                                ELSE scanned
                         /\ wret' = Result("DeleteWorld", IF saveOk THEN "ok" ELSE "err_save",
                                           worldID, <<>>, NoWorld)

\* BackupWorld: GetWorld (a ScanWorlds), then copyDir into the backups
\* root; k files are copied, and fewer than all of them is the error
\* return.
BackupWorld(worldID, scanSaveOk, k) ==
    /\ UNCHANGED <<now, modVars>>
    /\ LET l == WorldLoadManifest(worldManifest) IN
       IF ~l.ok
       THEN /\ wret' = Result("BackupWorld", "panic", worldID, <<>>, NoWorld)
            /\ UNCHANGED <<worldManifest, backupDirs, worldDirs>>
       ELSE \E ws \in ScanOrders(worldDirs, l.cat.worlds) :
            LET i == IndexOfWorld(ws, worldID) IN
            /\ worldManifest' = SavedWorldFile(scanSaveOk, ScannedCat(l.cat, ws))
            /\ IF i = 0
               THEN /\ wret' = Result("BackupWorld", "err_notfound", worldID, <<>>, NoWorld)
                    /\ UNCHANGED <<backupDirs, worldDirs>>
               ELSE LET world == ws[i]
                        src == worldDirs[world.ID]
                        backupName == BackupName(world, now)
                        backupPath == JoinBackupsDir(backupName)
                        inBackups == Head(backupPath) = "backups"
                        dstName == Tail(backupPath)
                        copied == copyDir(IF inBackups THEN backupDirs ELSE worldDirs,
                                          src, dstName, k, now)
                    IN
                    /\ k \in 0..FilesToCopy(src)
                    /\ \/ ~inBackups
                       \/ backupName \in DOMAIN backupDirs
                       \/ Cardinality(DOMAIN backupDirs) < MaxBackups
                    /\ Len(backupName) <= MaxNameLen
                    /\ backupDirs' = IF inBackups THEN copied ELSE backupDirs
                    /\ worldDirs' = IF inBackups THEN worldDirs ELSE copied
                    /\ wret' = IF k = FilesToCopy(src)
                               THEN Result("BackupWorld", "ok", backupName, <<>>,
                                        BackupObject(world, worldID, backupName,
                                                     copied[dstName], now))
                               ELSE Result("BackupWorld", "err_copy", backupName, <<>>, NoWorld)

\* RestoreBackup.
RestoreBackup(backupID, k, saveOk) ==
    /\ UNCHANGED <<now, backupDirs, modVars>>
    /\ IF backupID \notin DOMAIN backupDirs
       THEN /\ wret' = Result("RestoreBackup", "err_notfound", backupID, <<>>, NoWorld)
            /\ UNCHANGED <<worldDirs, worldManifest>>
       ELSE LET src == backupDirs[backupID]
                worldID == RestoredID(now)
                copied == copyDir(worldDirs, src, worldID, k, now)
                world == RestoredWorld(worldID, backupID, copied[worldID], now)
                l == WorldLoadManifest(worldManifest)
            IN
            /\ k \in 0..FilesToCopy(src)
            /\ Len(l.cat.worlds) < MaxEntries
            /\ worldDirs' = copied
            /\ IF k < FilesToCopy(src)
               THEN /\ wret' = Result("RestoreBackup", "err_copy", worldID, <<>>, NoWorld)
                    /\ UNCHANGED worldManifest
               ELSE IF ~l.ok
               THEN /\ wret' = Result("RestoreBackup", "err_load", worldID, <<>>, NoWorld)
                    /\ UNCHANGED worldManifest
               ELSE /\ worldManifest' = SavedWorldFile(saveOk,
                            [l.cat EXCEPT !.worlds = Append(l.cat.worlds, world),
                                          !.null = FALSE])
                    /\ wret' = IF saveOk
                               THEN Result("RestoreBackup", "ok", worldID, <<>>, world)
                               ELSE Result("RestoreBackup", "err_save", worldID, <<>>, NoWorld)

\* GetBackups' World literal for one directory of the backups root.
ListedBackup(name, d) ==
    [ID |-> name, Name |-> name, Path |-> JoinBackupsDir(name),
     CreatedAt |-> FormatSeconds(d.mtime), LastPlayed |-> FormatSeconds(d.mtime),
     SizeBytes |-> calculateDirSize(d), GameMode |-> "", Seed |-> "",
     IsBackup |-> TRUE, BackupOf |-> <<>>]

\* GetBackups: every directory of the backups root, newest first (the sort
\* is not stable).
GetBackups ==
    /\ UNCHANGED <<now, worldDirs, backupDirs, worldManifest, modVars>>
    /\ LET names == DOMAIN backupDirs
           n == Cardinality(names)
       IN \E f \in [1..n -> names] :
            /\ \A i, j \in 1..n : f[i] = f[j] => i = j
            /\ \A i, j \in 1..n : i < j =>
                FormatSeconds(backupDirs[f[i]].mtime) >= FormatSeconds(backupDirs[f[j]].mtime)
            /\ wret' = Result("GetBackups", "ok", <<>>,
                              [i \in 1..n |-> ListedBackup(f[i], backupDirs[f[i]])], NoWorld)

\* DeleteBackup that reports a backup that is not there as an error.
DeleteBackupStrict(backupID) ==
    /\ backupDirs' = RemoveDir(backupDirs, backupID)
    /\ wret' = Result("DeleteBackup",
                      IF backupID \in DOMAIN backupDirs THEN "ok" ELSE "err_notfound",
                      backupID, <<>>, NoWorld)
    /\ UNCHANGED <<now, worldDirs, worldManifest, modVars>>

\* DeleteBackup: os.RemoveAll, which succeeds when there is nothing to
\* remove.
DeleteBackup(backupID) ==
    LET backupPath == JoinBackupsDir(backupID) IN
    /\ backupDirs' = RemoveAllIn(backupDirs, "backups", backupPath)
    /\ worldDirs' = RemoveAllIn(worldDirs, "worlds", backupPath)
    /\ worldManifest' = IF backupPath = <<"worlds">> THEN AbsentWorldFile ELSE worldManifest
    /\ wret' = Result("DeleteBackup", "ok", backupID, <<>>, NoWorld)
    /\ UNCHANGED <<now, modVars>>

\* The game writes a new save directory, or the user removes one, outside
\* the launcher; the last call's result is no longer the latest event.
GameCreatesWorld(name, files) ==
    /\ name \notin DOMAIN worldDirs
    /\ worldDirs' = [n \in DOMAIN worldDirs \cup {name} |->
                        IF n = name THEN Dir(files, now) ELSE worldDirs[n]]
    /\ wret' = NoResult
    /\ UNCHANGED <<now, backupDirs, worldManifest, modVars>>

UserRemovesWorld(name) ==
    /\ name \in DOMAIN worldDirs
    /\ worldDirs' = RemoveDir(worldDirs, name)
    /\ wret' = NoResult
    /\ UNCHANGED <<now, backupDirs, worldManifest, modVars>>

\* Time passes.
Tick ==
    /\ now < MaxClock
    /\ now' = now + 1
    /\ wret' = NoResult
    /\ UNCHANGED <<modVars, worldDirs, backupDirs, worldManifest>>

----------------------------------------------------------------------------
(* Specifications *)

NoCallers ==
    /\ pc = [p \in Procs |-> "idle"]
    /\ op = [p \in Procs |-> NoOp]
    /\ ret = [p \in Procs |-> "none"]
    /\ runs = [p \in Procs |-> 0]
    /\ pre = [p \in Procs |-> NoCall]
    /\ updates = [p \in Procs |-> <<>>]
    /\ cfret = NoAnswer

NoWorlds ==
    /\ worldDirs = [n \in {} |-> Dir(NoFiles, 0)]
    /\ backupDirs = [n \in {} |-> Dir(NoFiles, 0)]
    /\ worldManifest = AbsentWorldFile
    /\ wret = NoResult

ModInit ==
    /\ now = 0
    /\ modFiles = EmptyFs
    /\ modManifest = AbsentFile
    /\ NoCallers
    /\ NoWorlds

AllIdle == \A p \in Procs : pc[p] = "idle"

\* One caller, one operation at a time.
ModCall ==
    /\ AllIdle
    /\ UNCHANGED <<runs, pre>>
    /\ \/ \E i \in Items, e \in BOOLEAN : BeginToggle(1, ModID(i), e)
       \/ \E i \in Items : BeginRemove(1, ModID(i))
       \/ BeginGetInstalled(1)
       \/ \E i \in Items, fs \in SeqsUpTo(RemoteFiles, MaxFiles) : BeginDownload(1, i, fs)

ModStep ==
    \E p \in Procs :
        \/ LoadStep(p)
        \/ RenameStep(p)
        \/ RmFileStep(p)
        \/ XferStart(p)
        \/ XferOk(p)
        \/ Cleanup(p)
        \/ SaveOpen(p)
        \/ SaveWrite(p)

ModNext == ModCall \/ ModStep \/ (\E p \in Procs : XferFail(p)) \/ Tick

ModSpec == ModInit /\ [][ModNext]_vars

\* One caller, with the failures the store has to survive: a transfer that
\* fails, a save that returns an error, and the process stopping at any
\* step.  The clock stands still: no failure depends on the time.
ModFaultNext ==
    \/ ModCall
    \/ ModStep
    \/ \E p \in Procs : XferFail(p)
    \/ \E p \in Procs : SaveFail(p)
    \/ Crash

ModFaultSpec == ModInit /\ [][ModFaultNext]_vars

\* Two callers, each dispatching one operation, from a store in which some
\* of the items are installed and enabled (item 1 as a.jar, item 2 as b.jar).
InstalledFileName(i) == IF i = 1 THEN <<"a", "jar">> ELSE <<"b", "jar">>

InstalledMod(i) ==
    [ID |-> ModID(i), Version |-> <<InstalledFileName(i)[1], i>>, CurseForgeID |-> i,
     Enabled |-> TRUE, InstalledAt |-> 0, UpdatedAt |-> 0,
     FilePath |-> InstalledFileName(i)]

InstalledCat(n) == [mods |-> [i \in 1..n |-> InstalledMod(i)], null |-> FALSE, version |-> "1.0"]

InstalledFs(n) ==
    [q \in {InstalledFileName(i) : i \in 1..n} |->
        FullContent(CHOOSE i \in 1..n : InstalledFileName(i) = q)]

ConcInit ==
    /\ now = 0
    /\ \E n \in 0..2 :
        /\ modFiles = InstalledFs(n)
        /\ modManifest = IF n = 0 THEN AbsentFile ELSE OkFile(InstalledCat(n))
    /\ NoCallers
    /\ NoWorlds

Record(p, call) ==
    /\ runs[p] < MaxRuns
    /\ runs' = [runs EXCEPT ![p] = @ + 1]
    /\ pre' = [pre EXCEPT ![p] = [call EXCEPT !.manifest = modManifest, !.files = modFiles]]

ConcCall ==
    \E p \in Procs :
        \/ \E i \in Items, e \in BOOLEAN :
            /\ BeginToggle(p, ModID(i), e)
            /\ Record(p, [NoCall EXCEPT !.kind = "toggle", !.modID = ModID(i), !.enabled = e])
        \/ \E i \in Items :
            /\ BeginRemove(p, ModID(i))
            /\ Record(p, [NoCall EXCEPT !.kind = "remove", !.modID = ModID(i)])
        \/ \E i \in Items, fs \in SeqsUpTo(RemoteFiles, MaxFiles) :
            /\ BeginDownload(p, i, fs)
            /\ Record(p, [NoCall EXCEPT !.kind = "download", !.modID = ModID(i), !.item = i,
                                        !.file = IF fs = <<>> THEN NoFileRec ELSE SelectLatest(fs)])

ConcNext == ConcCall \/ ModStep \/ (\E p \in Procs : XferFail(p))

ConcSpec == ConcInit /\ [][ConcNext]_vars

\* The ids a caller can pass: those of the directories and of the
\* manifest, and one that names nothing.
ManifestWorlds == worldManifest.cat.worlds

WorldIDs ==
    DOMAIN worldDirs \cup {ManifestWorlds[i].ID : i \in 1..Len(ManifestWorlds)}
        \cup {<<"nosuch">>}

BackupIDs == DOMAIN backupDirs \cup {<<"nosuch">>}

CopyStops == 0..Len(WalkOrder)

\* Reconciliation: the world catalog against a worlds root that the game
\* and the user change, one call at a time; a SaveManifest may fail.
WorldInit ==
    /\ now = 0
    /\ modFiles = EmptyFs
    /\ modManifest = AbsentFile
    /\ NoCallers
    /\ NoWorlds

WorldNext ==
    \/ \E saveOk \in BOOLEAN : ScanWorlds(saveOk)
    \/ \E id \in WorldIDs, n \in DisplayNames, saveOk \in BOOLEAN : RenameWorld(id, n, saveOk)
    \/ \E id \in WorldIDs, scanSaveOk, saveOk \in BOOLEAN : DeleteWorld(id, scanSaveOk, saveOk)
    \/ \E n \in WorldNames, fs \in WorldTemplates : GameCreatesWorld(n, fs)
    \/ \E n \in WorldNames : UserRemovesWorld(n)
    \/ Tick

WorldSpec == WorldInit /\ [][WorldNext]_vars

\* The backup engine: backups and restores of a world the game has saved
\* (level.dat and r.dat, not yet scanned), one call at a time; a
\* SaveManifest may fail and a copy may stop partway.
BackupInit ==
    /\ now = 0
    /\ modFiles = EmptyFs
    /\ modManifest = AbsentFile
    /\ NoCallers
    /\ worldDirs = [n \in {<<"w1">>} |->
                        Dir([f \in {"level.dat", "r.dat"} |-> IF f = "level.dat" THEN 1 ELSE 2], 0)]
    /\ backupDirs = [n \in {} |-> Dir(NoFiles, 0)]
    /\ worldManifest = AbsentWorldFile
    /\ wret = NoResult

BackupNext ==
    \/ \E saveOk \in BOOLEAN : ScanWorlds(saveOk)
    \/ \E id \in WorldIDs, k \in CopyStops, scanSaveOk \in BOOLEAN : BackupWorld(id, scanSaveOk, k)
    \/ \E b \in BackupIDs, k \in CopyStops, saveOk \in BOOLEAN : RestoreBackup(b, k, saveOk)
    \/ GetBackups
    \/ \E b \in BackupIDs : DeleteBackup(b)
    \/ Tick

BackupSpec == BackupInit /\ [][BackupNext]_vars

\* A remote file whose name ends in ".disabled": the file name is whatever
\* the remote catalog says, and DownloadMod installs it under that name.
SuffixedFile ==
    [FileName |-> <<"a", "jar", "disabled">>, FileDate |-> 2,
     DisplayName |-> <<"a", 3>>, HasURL |-> TRUE]

\* A toggle round trip: one caller installs, toggles and removes mods, then
\* calls ToggleMod(id, false), and after that has returned a second caller
\* calls ToggleMod(id, true) for the same id.  Both calls are recorded with
\* the manifest and the files they began with.
ToggleSetup ==
    /\ AllIdle
    /\ runs[1] = 0
    /\ UNCHANGED <<runs, pre>>
    /\ \/ \E i \in Items, f \in RemoteFiles \cup {SuffixedFile} : BeginDownload(1, i, <<f>>)
       \/ \E i \in Items, e \in BOOLEAN : BeginToggle(1, ModID(i), e)
       \/ \E i \in Items : BeginRemove(1, ModID(i))

ToggleOff ==
    /\ AllIdle
    /\ runs[1] = 0
    /\ \E i \in Items :
        /\ BeginToggle(1, ModID(i), FALSE)
        /\ Record(1, [NoCall EXCEPT !.kind = "toggle", !.modID = ModID(i), !.enabled = FALSE])

ToggleOn ==
    /\ AllIdle
    /\ runs[1] >= 1
    /\ runs[2] = 0
    /\ BeginToggle(2, pre[1].modID, TRUE)
    /\ Record(2, [NoCall EXCEPT !.kind = "toggle", !.modID = pre[1].modID, !.enabled = TRUE])

ToggleNext ==
    \/ ToggleSetup
    \/ ToggleOff
    \/ ToggleOn
    \/ ModStep
    \/ \E p \in Procs : XferFail(p)

ToggleSpec == ModInit /\ [][ToggleNext]_vars

\* Backup and restore round trips: two saves of the game whose files
\* nothing modifies (w1 with level.dat and r.dat, w2 with level.dat only);
\* every BackupWorld is of one of them, a world may be deleted, and every
\* copy and save succeeds.  A backup directory is then always the snapshot
\* of the world its name begins with.
RoundTripInit ==
    /\ now = 0
    /\ modFiles = EmptyFs
    /\ modManifest = AbsentFile
    /\ NoCallers
    /\ worldDirs = [n \in WorldNames |->
                        IF n = <<"w1">>
                        THEN Dir([f \in {"level.dat", "r.dat"} |-> IF f = "level.dat" THEN 1 ELSE 2], 0)
                        ELSE Dir([f \in {"level.dat"} |-> 1], 0)]
    /\ backupDirs = [n \in {} |-> Dir(NoFiles, 0)]
    /\ worldManifest = AbsentWorldFile
    /\ wret = NoResult

RoundTripNext ==
    \/ \E id \in WorldNames : BackupWorld(id, TRUE, FilesToCopy(worldDirs[id]))
    \/ \E b \in DOMAIN backupDirs : RestoreBackup(b, FilesToCopy(backupDirs[b]), TRUE)
    \/ \E b \in DOMAIN backupDirs : DeleteBackup(b)
    \/ \E id \in WorldNames : DeleteWorld(id, TRUE, TRUE)
    \/ Tick

RoundTripSpec == RoundTripInit /\ [][RoundTripNext]_vars


\* First use: both catalogs before and after their manifest files first
\* exist.  One caller lists and installs mods while worlds are created,
\* scanned and renamed; a world SaveManifest may fail.
FirstUseNext ==
    \/ AllIdle /\ UNCHANGED <<runs, pre>> /\ BeginGetInstalled(1)
    \/ \E f \in RemoteFiles :
          AllIdle /\ UNCHANGED <<runs, pre>> /\ BeginDownload(1, 1, <<f>>)
    \/ \E p \in Procs : LoadStep(p)
    \/ \E p \in Procs : XferStart(p)
    \/ \E p \in Procs : XferOk(p)
    \/ \E p \in Procs : XferFail(p)
    \/ \E p \in Procs : Cleanup(p)
    \/ \E p \in Procs : SaveOpen(p)
    \/ \E p \in Procs : SaveWrite(p)
    \/ \E saveOk \in BOOLEAN : ScanWorlds(saveOk)
    \/ \E id \in WorldIDs, n \in DisplayNames, saveOk \in BOOLEAN : RenameWorld(id, n, saveOk)
    \/ \E n \in WorldNames, fs \in WorldTemplates : GameCreatesWorld(n, fs)

FirstUseSpec == WorldInit /\ [][FirstUseNext]_vars


\* Update checks: one caller installs mods and checks for updates,
\* one operation at a time and every transfer completing, against a
\* catalog service whose items come and go.  The manifest may already hold a mod that was not installed
\* from the service (CurseForgeID 0).  FileDate is the service's UTC
\* date; InstalledAt and UpdatedAt are the local wall clock, which reads
\* up to MaxZoneLag seconds less than UTC: a file can be served once the
\* local clock has reached FileDate - MaxZoneLag.
LocalMod ==
    [ID |-> <<"local">>, Version |-> <<"l", 1>>, CurseForgeID |-> 0, Enabled |-> TRUE,
     InstalledAt |-> 0, UpdatedAt |-> 0, FilePath |-> <<"l", "jar">>]

Published(f) == f.FileDate <= FormatSeconds(now) + MaxZoneLag

PublishedFiles == {f \in RemoteFiles : Published(f)}

\* The file lists the service can answer with: no file is listed twice.
RemoteLists ==
    {fs \in SeqsUpTo(PublishedFiles, MaxFiles) :
        \A j, k \in 1..Len(fs) : fs[j] = fs[k] => j = k}

Remotes == [Items -> {RemoteDown} \cup {RemoteItem(fs) : fs \in RemoteLists}]

UpdateInit ==
    /\ now = 0
    /\ \/ modFiles = EmptyFs /\ modManifest = AbsentFile
       \/ /\ modFiles = FsWrite(EmptyFs, LocalMod.FilePath, FullContent(0))
          /\ modManifest = OkFile([EmptyModCat EXCEPT !.mods = <<LocalMod>>])
    /\ NoCallers
    /\ NoWorlds

UpdateNext ==
    \/ \E i \in Items, f \in PublishedFiles :
          AllIdle /\ UNCHANGED <<runs, pre>> /\ BeginDownload(1, i, <<f>>)
    \/ \E remote \in Remotes : AllIdle /\ CheckForUpdates(1, remote)
    \/ \E p \in Procs : LoadStep(p)
    \/ \E p \in Procs : XferStart(p)
    \/ \E p \in Procs : XferOk(p)
    \/ \E p \in Procs : SaveOpen(p)
    \/ \E p \in Procs : SaveWrite(p)
    \/ Tick

UpdateSpec == UpdateInit /\ [][UpdateNext]_vars


\* A toggle and the update check after it: one caller installs and toggles
\* mods, every transfer completing; one ToggleMod call is recorded with the
\* manifest it began with, and after it has returned the caller checks for
\* updates once.
ToggleCheckNext ==
    \/ \E i \in Items, f \in PublishedFiles :
          /\ AllIdle /\ runs[1] = 0 /\ UNCHANGED <<runs, pre>>
          /\ BeginDownload(1, i, <<f>>)
    \/ \E i \in Items, e \in BOOLEAN :
          /\ AllIdle /\ runs[1] = 0 /\ UNCHANGED <<runs, pre>>
          /\ BeginToggle(1, ModID(i), e)
    \/ \E i \in Items, e \in BOOLEAN :
          /\ AllIdle /\ runs[1] = 0
          /\ BeginToggle(1, ModID(i), e)
          /\ Record(1, [NoCall EXCEPT !.kind = "toggle", !.modID = ModID(i), !.enabled = e])
    \/ \E remote \in Remotes :
          AllIdle /\ runs[1] = 1 /\ ret[1] # "checked" /\ CheckForUpdates(1, remote)
    \/ \E p \in Procs : LoadStep(p)
    \/ \E p \in Procs : RenameStep(p)
    \/ \E p \in Procs : XferStart(p)
    \/ \E p \in Procs : XferOk(p)
    \/ \E p \in Procs : SaveOpen(p)
    \/ \E p \in Procs : SaveWrite(p)
    \/ Tick

ToggleCheckSpec == ModInit /\ [][ToggleCheckNext]_vars


\* Browsing the remote catalog: searches, details, file lists and
\* categories, each answered with any status and any body, or not at all;
\* the item that GetModDetails returned can be installed.  The payloads
\* are lists of the files published so far.
RemoteCalls == {"SearchMods", "GetModDetails", "GetModFiles", "GetCategories"}

Responses ==
    [status : Statuses,
     body : {Envelope(fs) : fs \in RemoteLists} \cup {NullEnvelope, OtherObject, NotJSON}]
        \cup {NoResponse}

RemoteNext ==
    \/ \E call \in RemoteCalls, resp \in Responses : AllIdle /\ RemoteCall(call, resp)
    \/ \E i \in Items :
          /\ AllIdle /\ UNCHANGED <<runs, pre>>
          /\ cfret.call = "GetModDetails" /\ cfret.outcome = "ok"
          /\ BeginDownload(1, i, cfret.data)
    \/ \E p \in Procs : LoadStep(p)
    \/ \E p \in Procs : XferStart(p)
    \/ \E p \in Procs : XferOk(p)
    \/ \E p \in Procs : SaveOpen(p)
    \/ \E p \in Procs : SaveWrite(p)
    \/ Tick

RemoteSpec == ModInit /\ [][RemoteNext]_vars


\* Explicit deletion: one caller installs mods and then removes one (the
\* RemoveMod call is recorded with the manifest and the files it began
\* with) while worlds are created, scanned and deleted; a SaveManifest of
\* either package may fail.
DeleteNext ==
    \/ \E i \in Items, f \in {g \in RemoteFiles : g.HasURL} :
          /\ AllIdle /\ runs[1] = 0 /\ UNCHANGED <<runs, pre>>
          /\ BeginDownload(1, i, <<f>>)
    \/ \E i \in Items :
          /\ AllIdle /\ runs[1] = 0
          /\ BeginRemove(1, ModID(i))
          /\ Record(1, [NoCall EXCEPT !.kind = "remove", !.modID = ModID(i)])
    \/ \E p \in Procs : LoadStep(p)
    \/ \E p \in Procs : RmFileStep(p)
    \/ \E p \in Procs : XferStart(p)
    \/ \E p \in Procs : XferOk(p)
    \/ \E p \in Procs : SaveOpen(p)
    \/ \E p \in Procs : SaveWrite(p)
    \/ \E p \in Procs : SaveFail(p)
    \/ \E saveOk \in BOOLEAN : AllIdle /\ ScanWorlds(saveOk)
    \/ \E id \in WorldIDs, scanSaveOk, saveOk \in BOOLEAN :
          AllIdle /\ DeleteWorld(id, scanSaveOk, saveOk)
    \/ \E n \in WorldNames, fs \in {t \in WorldTemplates : "level.dat" \in DOMAIN t} :
          AllIdle /\ GameCreatesWorld(n, fs)

DeleteSpec == ModInit /\ [][DeleteNext]_vars


\* Calls with ids that may name nothing: one caller installs item 1 and
\* toggles and removes mods by any id, while the world w1 is created by the
\* game, removed by the user, scanned, renamed, deleted, backed up and
\* restored, by its id, by the ids of the manifest and by an id that names
\* nothing.  Every copy and every save succeeds.
NotFoundNext ==
    \/ \E f \in {g \in RemoteFiles : g.HasURL /\ g.FileName = InstalledFileName(1)} :
          AllIdle /\ UNCHANGED <<runs, pre>> /\ BeginDownload(1, 1, <<f>>)
    \/ \E i \in Items, e \in BOOLEAN :
          AllIdle /\ UNCHANGED <<runs, pre>> /\ BeginToggle(1, ModID(i), e)
    \/ \E i \in Items :
          AllIdle /\ UNCHANGED <<runs, pre>> /\ BeginRemove(1, ModID(i))
    \/ \E p \in Procs : LoadStep(p)
    \/ \E p \in Procs : RenameStep(p)
    \/ \E p \in Procs : RmFileStep(p)
    \/ \E p \in Procs : XferStart(p)
    \/ \E p \in Procs : XferOk(p)
    \/ \E p \in Procs : SaveOpen(p)
    \/ \E p \in Procs : SaveWrite(p)
    \/ \E fs \in {t \in WorldTemplates : DOMAIN t = {"level.dat"}} :
          AllIdle /\ GameCreatesWorld(<<"w1">>, fs)
    \/ AllIdle /\ UserRemovesWorld(<<"w1">>)
    \/ AllIdle /\ ScanWorlds(TRUE)
    \/ \E id \in WorldIDs, n \in DisplayNames : AllIdle /\ RenameWorld(id, n, TRUE)
    \/ \E id \in WorldIDs : AllIdle /\ DeleteWorld(id, TRUE, TRUE)
    \/ \E id \in WorldIDs : AllIdle /\ BackupWorld(id, TRUE, FilesToCopy(worldDirs[id]))
    \/ \E b \in BackupIDs :
          AllIdle /\ RestoreBackup(b, IF b \in DOMAIN backupDirs
                                     THEN FilesToCopy(backupDirs[b]) ELSE 0, TRUE)

NotFoundSpec == ModInit /\ [][NotFoundNext]_vars

----------------------------------------------------------------------------
(* Properties of the mod catalog *)

PersistedMods == modManifest.cat.mods

IdsUnique(es) == \A i, j \in 1..Len(es) : es[i].ID = es[j].ID => i = j

FlagAgrees(m) == m.Enabled = ~IsDisabledPath(m.FilePath)

FileExists(m) == FsHas(modFiles, m.FilePath)

HasEntry(id) == \E i \in 1..Len(PersistedMods) : PersistedMods[i].ID = id

EntryOf(id) == PersistedMods[IndexOfID(PersistedMods, id)]

\* What a completed call leaves in the manifest when nothing undoes it.
EffectHolds(call) ==
    IF call.kind = "toggle"
    THEN HasEntry(call.modID) /\ EntryOf(call.modID).Enabled = call.enabled
    ELSE IF call.kind = "download"
    THEN /\ HasEntry(call.modID)
         /\ EntryOf(call.modID).Version = call.file.DisplayName
         /\ EntryOf(call.modID).FilePath = call.file.FileName
    ELSE IF call.kind = "remove" THEN ~HasEntry(call.modID)
    ELSE TRUE

\* C1: when two operations on different entries of the same manifest run
\* concurrently and both return success, the persisted manifest holds the
\* effect of both: no save overwrites the other operation's update.
C1_NoLostUpdate ==
    (/\ AllIdle
     /\ ret[1] = "ok" /\ ret[2] = "ok"
     /\ pre[1].modID # pre[2].modID)
    => (/\ modManifest.state = "ok"
        /\ EffectHolds(pre[1])
        /\ EffectHolds(pre[2]))

\* C2: once two concurrently dispatched mod operations have both returned,
\* ids are unique, every entry's Enabled agrees with the ".disabled" suffix
\* of its FilePath, and every entry's FilePath names an existing file.
C2_CatalogInvariantAfterRace ==
    (AllIdle /\ runs[1] = 1 /\ runs[2] = 1)
    => (/\ modManifest.state # "partial"
        /\ IdsUnique(PersistedMods)
        /\ \A i \in 1..Len(PersistedMods) :
            FlagAgrees(PersistedMods[i]) /\ FileExists(PersistedMods[i]))

\* C4: after any sequence of DownloadMod, ToggleMod and RemoveMod calls,
\* every persisted entry has Enabled = TRUE exactly when its FilePath does
\* not end in ".disabled", and the mod's file is on disk under exactly the
\* name recorded in FilePath.
C4_EnabledMatchesSuffixAndFile ==
    AllIdle =>
        \A i \in 1..Len(PersistedMods) :
            /\ PersistedMods[i].Enabled = ~IsDisabledPath(PersistedMods[i].FilePath)
            /\ FsHas(modFiles, PersistedMods[i].FilePath)
            /\ modFiles[PersistedMods[i].FilePath].complete

\* The entry and the disk disagree the way a toggle whose rename was not
\* persisted leaves them: the file is on disk under the other name.
OtherName(path) == IF IsDisabledPath(path) THEN StripDisabled(path) ELSE AddDisabled(path)

Diverged(m) == ~FsHas(modFiles, m.FilePath) /\ FsHas(modFiles, OtherName(m.FilePath))

\* C5: after ToggleMod renamed the file and its save failed (or the process
\* stopped before the save), a following pass over the catalog
\* (GetInstalledMods) leaves no entry whose file is on disk under the other
\* name: the suffix on disk is detected and the entry repaired.
C5_ReconciliationRepairsToggle ==
    \A p \in Procs :
        (pc[p] = "idle" /\ ret[p] = "listed")
        => \A i \in 1..Len(PersistedMods) : ~Diverged(PersistedMods[i])

\* C6: a crash during SaveManifest leaves the manifest file with its
\* complete previous or its complete new content: when no save is under
\* way the file is never a partially written document, and no LoadManifest
\* fails to parse it.
C6_SaveIsAtomic ==
    /\ (\A p \in Procs : pc[p] # "save_write") => modManifest.state # "partial"
    /\ \A p \in Procs : ret[p] # "err_load"

\* C7: when the transfer of DownloadMod fails or is cancelled, DownloadMod
\* returns an error, no file (so no partially written one) remains at the
\* destination path, and no step of the call, from its beginning to its
\* return, changes the manifest file.
C7_FailedDownloadLeavesNothing ==
    [][\A p \in Procs :
        /\ (pc'[p] \in {"xfer_start", "xfer", "cleanup"}) => modManifest' = modManifest
        /\ (pc[p] = "cleanup" /\ pc'[p] = "idle")
            => (/\ ret'[p] = "err_xfer"
                /\ modManifest' = modManifest
                /\ ~FsHas(modFiles', op[p].dest))]_vars

\* A download of an installed item failed and returned its error.
C7_Witness ==
    /\ pc[1] = "idle"
    /\ ret[1] = "err_xfer"
    /\ Len(PersistedMods) = 2

\* C8: after any sequence of mod operations, including a DownloadMod of an
\* installed item whose transfer fails, every persisted entry's FilePath
\* names an existing file.
C8_EveryEntryHasItsFile ==
    AllIdle => \A i \in 1..Len(PersistedMods) : FileExists(PersistedMods[i])

----------------------------------------------------------------------------
(* Properties of the world catalog and the backups *)

\* The path names a directory that exists under the worlds root.
IsWorldDirPath(path) ==
    /\ Len(path) >= 2
    /\ path[1] = "worlds"
    /\ Tail(path) \in DOMAIN worldDirs

\* C3: after any sequence of completed catalog operations, at whatever
\* times they run (several RestoreBackup calls within one clock second
\* included), no two entries of a persisted manifest have the same id.
C3_IdsUnique ==
    /\ IdsUnique(ManifestWorlds)
    /\ AllIdle => IdsUnique(PersistedMods)

\* C9: after ScanWorlds completes, every entry of the persisted world
\* manifest and of the returned list has a Path that is an existing
\* directory under the worlds root: an entry whose directory is gone is
\* dropped.
C9_ScanDropsStaleEntries ==
    (wret.op = "ScanWorlds" /\ wret.code = "ok")
    => (/\ \A i \in 1..Len(wret.worlds) : IsWorldDirPath(wret.worlds[i].Path)
        /\ \A i \in 1..Len(ManifestWorlds) : IsWorldDirPath(ManifestWorlds[i].Path))

\* C10: when the directory copy of BackupWorld or RestoreBackup fails
\* partway, the destination is removed before the error is returned: no
\* directory of that backup is left under the backups root, none of that
\* restore under the worlds root.
C10_FailedCopyLeavesNoDirectory ==
    /\ (wret.op = "BackupWorld" /\ wret.code = "err_copy") => wret.id \notin DOMAIN backupDirs
    /\ (wret.op = "RestoreBackup" /\ wret.code = "err_copy") => wret.id \notin DOMAIN worldDirs

WorldIdSet(worlds) == {worlds[i].ID : i \in 1..Len(worlds)}

RestoreFailed(r) ==
    r.op = "RestoreBackup" /\ r.code \in {"err_copy", "err_load", "err_save"}

\* C11: when RestoreBackup returns an error (the copy, the manifest load or
\* the manifest save failed) for a restore whose id the manifest did not
\* hold, the manifest holds no entry of that id when the error is returned,
\* and none after the ScanWorlds that follows.
C11_FailedRestoreRegistersNothing ==
    [][/\ (RestoreFailed(wret') /\ wret'.id \notin WorldIdSet(ManifestWorlds))
            => wret'.id \notin WorldIdSet(ManifestWorlds')
       /\ (/\ RestoreFailed(wret)
           /\ wret.id \notin WorldIdSet(ManifestWorlds)
           /\ wret'.op = "ScanWorlds")
            => wret.id \notin WorldIdSet(ManifestWorlds')]_vars

\* C12: a DownloadMod that succeeds for an item whose id the manifest
\* holds (a second call for the same remote item) replaces that entry in
\* place with the entry the call built: the persisted manifest has exactly
\* one entry of the id, every other entry is as it was and where it was.
\* A DownloadMod for an id the manifest does not hold appends its entry.
C12_ReinstallOverwrites ==
    [][\A p \in Procs :
        /\ (pc[p] = "load" /\ op[p].kind = "download" /\ pc'[p] = "save_open")
            => LET old == PersistedMods
                   new == op'[p].cat.mods
                   i == IndexOfID(old, op[p].mod.ID)
               IN IF i = 0
                  THEN new = Append(old, op[p].mod)
                  ELSE /\ Len(new) = Len(old)
                       /\ new[i] = op[p].mod
                       /\ \A j \in 1..Len(old) : j # i => new[j] = old[j]
        /\ (pc[p] = "save_write" /\ op[p].kind = "download" /\ pc'[p] = "idle")
            => (/\ ret'[p] = "ok"
                /\ modManifest' = OkFile(op[p].cat)
                /\ Cardinality({j \in 1..Len(PersistedMods') :
                                    PersistedMods'[j].ID = op[p].mod.ID}) = 1
                /\ \E j \in 1..Len(PersistedMods') : PersistedMods'[j] = op[p].mod)]_vars

\* Item 1 was installed before item 2 and installed again after it: its
\* entry is still first, and is the one built by the later call.
C12_Witness ==
    /\ AllIdle
    /\ ret[1] = "ok"
    /\ Len(PersistedMods) = 2
    /\ PersistedMods[1].ID = ModID(1)
    /\ PersistedMods[2].ID = ModID(2)
    /\ PersistedMods[1].InstalledAt > PersistedMods[2].InstalledAt

\* C13: for an installed, enabled mod, ToggleMod(id, false) followed by
\* ToggleMod(id, true), both succeeding, leaves the entry with its original
\* FilePath and Enabled = TRUE and the file on disk under its original
\* name; between the two calls the entry has Enabled = FALSE and the file
\* is named <original>.disabled.
C13_ToggleRoundTrip ==
    LET id == pre[1].modID
        before == pre[1].manifest.cat.mods
        between == pre[2].manifest.cat.mods
        i == IndexOfID(before, id)
    IN (/\ AllIdle
        /\ runs[1] = 1 /\ runs[2] = 1
        /\ ret[1] = "ok" /\ ret[2] = "ok"
        /\ i # 0
        /\ before[i].Enabled
        /\ FsHas(pre[1].files, before[i].FilePath))
       => (/\ HasEntry(id)
           /\ EntryOf(id).Enabled
           /\ EntryOf(id).FilePath = before[i].FilePath
           /\ FsHas(modFiles, before[i].FilePath)
           /\ ~between[IndexOfID(between, id)].Enabled
           /\ between[IndexOfID(between, id)].FilePath = AddDisabled(before[i].FilePath)
           /\ FsHas(pre[2].files, AddDisabled(before[i].FilePath))
           /\ ~FsHas(pre[2].files, before[i].FilePath))

\* The scanned entry r is the manifest entry e rescanned over directory d:
\* same id and path, the Name, CreatedAt, GameMode and Seed that were
\* recorded, and the size of the files now on disk.
Rescanned(r, e, d) ==
    /\ r.ID = e.ID
    /\ r.Path = e.Path
    /\ r.Name = e.Name
    /\ r.CreatedAt = e.CreatedAt
    /\ r.GameMode = e.GameMode
    /\ r.Seed = e.Seed
    /\ r.SizeBytes = calculateDirSize(d)

\* C14: a ScanWorlds that follows a successful RenameWorld, over the
\* unchanged directory, returns and persists for the renamed entry an entry
\* with the same id, the new Name, the recorded CreatedAt, GameMode and
\* Seed, and SizeBytes computed from the files on disk; and no ScanWorlds
\* changes the CreatedAt recorded for a directory that is still a world.
C14_RescanKeepsRenamedEntry ==
    [][(wret'.op = "ScanWorlds" /\ wret'.code = "ok") =>
        /\ (wret.op = "RenameWorld" /\ wret.code = "ok") =>
            LET e == ManifestWorlds[IndexOfWorld(ManifestWorlds, wret.id)] IN
            (Tail(e.Path) \in ScannedNames(worldDirs)) =>
                /\ \E j \in 1..Len(wret'.worlds) :
                    Rescanned(wret'.worlds[j], e, worldDirs[Tail(e.Path)])
                /\ \E j \in 1..Len(ManifestWorlds') :
                    Rescanned(ManifestWorlds'[j], e, worldDirs[Tail(e.Path)])
        /\ \A i \in 1..Len(ManifestWorlds) :
            (Tail(ManifestWorlds[i].Path) \in ScannedNames(worldDirs)) =>
                \E j \in 1..Len(wret'.worlds) :
                    /\ wret'.worlds[j].Path = ManifestWorlds[i].Path
                    /\ wret'.worlds[j].CreatedAt = ManifestWorlds[i].CreatedAt]_vars

\* The backup a restored world was made from (its Name is "Restored - "
\* and the backup id), and the world that backup was made of (the backup
\* id is the world's name, "backup" and the timestamp).
BackupOfRestored(w) == Tail(w.Name)

SourceOfBackup(b) == SubSeq(b, 1, Len(b) - 2)

\* C15: RestoreBackup of a backup made by BackupWorld of a world that was
\* not modified in between yields a new live entry whose directory holds
\* exactly the files of that world, with the same contents, and whose
\* SizeBytes is the world's size.
C15_RestoreOfBackupEqualsWorld ==
    (wret.op = "RestoreBackup" /\ wret.code = "ok")
    => LET src == SourceOfBackup(BackupOfRestored(wret.world)) IN
       (src \in WorldNames /\ src \in DOMAIN worldDirs) =>
            /\ ~wret.world.IsBackup
            /\ wret.world.Path = WorldPath(wret.id)
            /\ worldDirs[wret.id].files = worldDirs[src].files
            /\ wret.world.SizeBytes = calculateDirSize(worldDirs[src])

\* C16: a successful RestoreBackup appends exactly one entry to the
\* persisted world manifest: an entry with IsBackup = FALSE, an id that no
\* entry of the manifest had, and a Path under the worlds root; every entry
\* that was there is unchanged and where it was, and the backup directory
\* is unchanged.
C16_RestoreAppendsOneNewEntry ==
    [][(wret'.op = "RestoreBackup" /\ wret'.code = "ok") =>
        /\ Len(ManifestWorlds') = Len(ManifestWorlds) + 1
        /\ SubSeq(ManifestWorlds', 1, Len(ManifestWorlds)) = ManifestWorlds
        /\ LET e == ManifestWorlds'[Len(ManifestWorlds')] IN
            /\ e = wret'.world
            /\ ~e.IsBackup
            /\ e.Path = WorldPath(e.ID)
            /\ e.ID \notin WorldIdSet(ManifestWorlds)
        /\ backupDirs' = backupDirs]_vars

\* C17: no entry with IsBackup = TRUE is stored in the world manifest or
\* returned by ScanWorlds (GetWorld returns one of ScanWorlds' entries);
\* the object a successful BackupWorld returns has IsBackup = TRUE and
\* BackupOf the id of the world it copied; every entry GetBackups returns
\* has IsBackup = TRUE.
C17_BackupsNeverLive ==
    /\ \A i \in 1..Len(ManifestWorlds) : ~ManifestWorlds[i].IsBackup
    /\ (wret.op = "ScanWorlds") => \A i \in 1..Len(wret.worlds) : ~wret.worlds[i].IsBackup
    /\ (wret.op = "BackupWorld" /\ wret.code = "ok") =>
            /\ wret.world.IsBackup
            /\ wret.world.BackupOf \in DOMAIN worldDirs
            /\ \A f \in DOMAIN worldDirs[wret.world.BackupOf].files :
                /\ f \in DOMAIN backupDirs[wret.id].files
                /\ backupDirs[wret.id].files[f] = worldDirs[wret.world.BackupOf].files[f]
    /\ (wret.op = "GetBackups") => \A i \in 1..Len(wret.worlds) : wret.worlds[i].IsBackup

\* A backup was taken while the manifest holds the world and a world
\* restored from a backup.
C17_Witness ==
    /\ wret.op = "BackupWorld"
    /\ wret.code = "ok"
    /\ Len(ManifestWorlds) >= 2
    /\ \E i \in 1..Len(ManifestWorlds) : ManifestWorlds[i].ID = RestoredID(now)

\* C18: BackupWorld, GetBackups and DeleteBackup leave the persisted world
\* manifest as it was: of the backup operations only RestoreBackup writes
\* the live catalog.
C18_BackupOpsLeaveManifest ==
    [][(wret'.op \in {"BackupWorld", "GetBackups", "DeleteBackup"})
        => worldManifest' = worldManifest]_vars

\* C19: while a manifest file does not exist, LoadManifest (mods and
\* worlds) returns the empty catalog with version "1.0" and no error:
\* GetInstalledMods returns the empty list without error, a first AddMod
\* and a first ScanWorlds write a version "1.0" catalog, RenameWorld finds
\* no entry rather than failing to load; and the load creates and modifies
\* no file.  (A step that leaves pc alone is a world call.)
C19_AbsentManifestLoadsEmpty ==
    [][/\ modManifest.state = "absent" =>
            /\ ModLoadManifest(modManifest).ok
            /\ ModLoadManifest(modManifest).cat.mods = <<>>
            /\ ~ModLoadManifest(modManifest).cat.null
            /\ ModLoadManifest(modManifest).cat.version = "1.0"
       /\ worldManifest.state = "absent" =>
            /\ WorldLoadManifest(worldManifest).ok
            /\ WorldLoadManifest(worldManifest).cat.worlds = <<>>
            /\ ~WorldLoadManifest(worldManifest).cat.null
            /\ WorldLoadManifest(worldManifest).cat.version = "1.0"
       /\ \A p \in Procs :
            (pc[p] = "load" /\ pc'[p] # "load" /\ modManifest.state = "absent") =>
                /\ modManifest' = modManifest
                /\ modFiles' = modFiles
                /\ worldVars' = worldVars
                /\ op[p].kind = "list" =>
                      pc'[p] = "idle" /\ ret'[p] = "listed"
                /\ op[p].kind = "download" =>
                      /\ pc'[p] = "save_open"
                      /\ op'[p].cat.version = "1.0"
                      /\ op'[p].cat.mods = <<op[p].mod>>
       /\ (worldManifest.state = "absent" /\ pc' = pc /\ wret'.op = "RenameWorld") =>
            /\ wret'.code = "err_notfound"
            /\ worldManifest' = worldManifest
            /\ worldDirs' = worldDirs /\ backupDirs' = backupDirs
            /\ modFiles' = modFiles /\ modManifest' = modManifest
       /\ (worldManifest.state = "absent" /\ pc' = pc /\ wret'.op = "ScanWorlds") =>
            /\ wret'.code = "ok"
            /\ worldManifest'.cat.version = "1.0"
            /\ worldDirs' = worldDirs /\ backupDirs' = backupDirs
            /\ modFiles' = modFiles /\ modManifest' = modManifest]_vars

C19_Witness ==
    /\ AllIdle /\ ret[1] = "listed" /\ modManifest.state = "absent"
    /\ wret.op = "RenameWorld" /\ wret.code = "err_notfound"
    /\ wret.id \in DOMAIN worldDirs
    /\ worldManifest.state = "absent"

\* C20: ScanWorlds over a worlds root with no valid world directory returns
\* the empty list and writes a manifest whose worlds field is the empty
\* array (not null) and whose version is "1.0".
C20_EmptyScanWritesEmptyArray ==
    [][(wret'.op = "ScanWorlds" /\ wret'.code = "ok" /\ ScannedNames(worldDirs) = {}) =>
            /\ wret'.worlds = <<>>
            /\ worldManifest'.state = "ok"
            /\ worldManifest'.cat.worlds = <<>>
            /\ ~worldManifest'.cat.null
            /\ worldManifest'.cat.version = "1.0"]_vars

\* An item with no downloadable file: no file at all, or none with a
\* download URL.
NoDownloadable(files) == \A k \in 1..Len(files) : ~files[k].HasURL

\* C21: DownloadMod on an item that has no downloadable file returns a
\* validation error, writes no file to the mods directory, starts no
\* transfer and leaves the mod manifest unchanged.
C21_NoFileIsValidationError ==
    [][\A p \in Procs, i \in Items, fs \in SeqsUpTo(RemoteFiles, MaxFiles) :
          (NoDownloadable(fs) /\ BeginDownload(p, i, fs)) =>
                /\ ret'[p] = "err_validation"
                /\ pc'[p] = "idle"
                /\ modFiles' = modFiles
                /\ modManifest' = modManifest]_vars

C21_Witness ==
    /\ AllIdle /\ ret[1] = "err_validation"
    /\ modManifest.state = "ok" /\ Len(modManifest.cat.mods) >= 1
    /\ modFiles # EmptyFs

\* The positions of the manifest entries that are due for an update: a
\* non-zero remote id, remote details that can be fetched, and some remote
\* file strictly newer than the entry's UpdatedAt.
DueForUpdate(mods, remote) ==
    {i \in 1..Len(mods) :
        /\ mods[i].CurseForgeID # 0
        /\ remote[mods[i].CurseForgeID].ok
        /\ \E k \in 1..Len(remote[mods[i].CurseForgeID].files) :
                remote[mods[i].CurseForgeID].files[k].FileDate > mods[i].UpdatedAt}

\* The entry was installed from the newest file the remote item lists.
InstalledFromNewest(mod, remote) ==
    /\ mod.CurseForgeID # 0
    /\ remote[mod.CurseForgeID].ok
    /\ remote[mod.CurseForgeID].files # <<>>
    /\ mod.Version = SelectLatest(remote[mod.CurseForgeID].files).DisplayName

\* C22: CheckForUpdates returns, each once and in manifest order, exactly
\* the entries with a non-zero remote id whose details can be fetched and
\* for which some remote file is newer than UpdatedAt; unreachable items
\* are skipped without failing the batch; and an entry installed from the
\* newest remote file, with no later file published, is not reported.
C22_UpdatesAreExactlyTheNewer ==
    [][\A remote \in Remotes :
          (ret'[1] = "checked" /\ CheckForUpdates(1, remote)) =>
            LET mods == modManifest.cat.mods
                u == updates'[1]
                due == DueForUpdate(mods, remote)
            IN /\ Len(u) = Cardinality(due)
               /\ \E f \in [1..Len(u) -> due] :
                    /\ \A j, k \in 1..Len(u) : j < k => f[j] < f[k]
                    /\ \A k \in 1..Len(u) : u[k] = mods[f[k]]
               /\ \A i \in 1..Len(mods) :
                    InstalledFromNewest(mods[i], remote) =>
                        \A k \in 1..Len(u) : u[k].ID # mods[i].ID]_vars

\* The path differs from the old one by at most a ".disabled" suffix.
SuffixOnly(old, new) ==
    \/ new = old
    \/ new = AddDisabled(old)
    \/ IsDisabledPath(old) /\ new = StripDisabled(old)

\* Catalog after is catalog before with nothing but the Enabled flag and
\* the ".disabled" suffix of the entry at position i changed.
OnlyToggled(before, after, i, enabled) ==
    /\ Len(after) = Len(before)
    /\ \A j \in 1..Len(before) : j # i => after[j] = before[j]
    /\ after[i] = [before[i] EXCEPT !.Enabled = enabled, !.FilePath = after[i].FilePath]
    /\ SuffixOnly(before[i].FilePath, after[i].FilePath)

IdsOf(mods) == [k \in 1..Len(mods) |-> mods[k].ID]

\* C23: a successful ToggleMod changes only the Enabled flag and the
\* ".disabled" suffix of FilePath of the entry it targets (id, CurseForgeID,
\* Version, UpdatedAt and every other entry stay as they were), so the
\* CheckForUpdates after it reports the mods it would have reported before.
C23_ToggleKeepsUpdateIdentity ==
    [][(runs[1] = 1 /\ pc[1] = "idle" /\ ret[1] = "ok") =>
          LET before == pre[1].manifest.cat.mods
              after == modManifest.cat.mods
              i == IndexOfID(before, pre[1].modID)
          IN /\ i # 0
             /\ OnlyToggled(before, after, i, pre[1].enabled)
             /\ ret'[1] = "checked" =>
                    \A remote \in Remotes :
                        CheckForUpdates(1, remote) =>
                            IdsOf(updates'[1]) = IdsOf(ModsWithUpdates(before, remote))]_vars

C23_Witness ==
    /\ runs[1] = 1 /\ AllIdle /\ ret[1] = "checked"
    /\ \E k \in 1..Len(updates[1]) :
            /\ updates[1][k].ID = pre[1].modID
            /\ updates[1][k].Enabled = pre[1].enabled
            /\ \E i \in 1..Len(pre[1].manifest.cat.mods) :
                    /\ pre[1].manifest.cat.mods[i].ID = pre[1].modID
                    /\ pre[1].manifest.cat.mods[i].Enabled # pre[1].enabled
                    /\ pre[1].manifest.cat.mods[i].FilePath # updates[1][k].FilePath
    /\ Len(modManifest.cat.mods) = 2

\* C24: a remote catalog call that receives a status outside 2xx returns
\* an error, never data decoded from the body; GetModDetails returns
\* not-found exactly when the status was 404, and any other status outside
\* 2xx is a remote-API failure that carries the status.
C24_Non2xxIsAnError ==
    [][\A call \in RemoteCalls, resp \in Responses \ {NoResponse} :
          (RemoteCall(call, resp) /\ ~(resp.status \in 200..299)) =>
                /\ cfret'.outcome \in {"err_api", "err_notfound"}
                /\ cfret'.data = <<>>
                /\ call = "GetModDetails" =>
                      IF resp.status = StatusNotFound
                      THEN cfret'.outcome = "err_notfound"
                      ELSE cfret'.outcome = "err_api" /\ cfret'.status = resp.status]_vars

\* C25: explicit deletion removes files and catalog row together.  For a
\* world that has its directory and its row, after DeleteWorld returns
\* (with success or with an error) the directory and the row are both gone
\* or both still there, and on success both are gone and every other
\* directory is as it was.  For a mod that has its file and its row, the
\* same holds after RemoveMod returns, and on success every other entry
\* and every other entry's file is as it was.
C25_DeleteRemovesFilesAndRow ==
    [][/\ (/\ pc' = pc
           /\ wret'.op = "DeleteWorld"
           /\ wret'.id \in ScannedNames(worldDirs)
           /\ wret'.id \in WorldIdSet(ManifestWorlds)) =>
                /\ (wret'.id \in DOMAIN worldDirs') = (wret'.id \in WorldIdSet(ManifestWorlds'))
                /\ wret'.code = "ok" =>
                      /\ wret'.id \notin DOMAIN worldDirs'
                      /\ worldDirs' = RemoveDir(worldDirs, wret'.id)
       /\ LET id == pre[1].modID
              before == pre[1].manifest.cat.mods
              i == IndexOfID(before, id)
          IN (/\ runs[1] = 1 /\ pc[1] = "idle" /\ ret[1] # "none"
              /\ i # 0
              /\ FsHas(pre[1].files, before[i].FilePath)) =>
                /\ modManifest.state = "ok"
                /\ FsHas(modFiles, before[i].FilePath) = HasEntry(id)
                /\ ret[1] = "ok" =>
                      /\ ~HasEntry(id)
                      /\ PersistedMods = SelectSeq(before, LAMBDA m : IDDiffers(m, id))
                      /\ \A j \in 1..Len(before) :
                            (j # i /\ FsHas(pre[1].files, before[j].FilePath)) =>
                                /\ FsHas(modFiles, before[j].FilePath)
                                /\ modFiles[before[j].FilePath] = pre[1].files[before[j].FilePath]]_vars

\* C26: DeleteBackup(backupId) removes the backup directory named backupId
\* and nothing else, and is idempotent: when that backup is already absent
\* it returns success and changes nothing on disk.
C26_DeleteBackupIdempotent ==
    [][wret'.op = "DeleteBackup" =>
          /\ wret'.code = "ok"
          /\ wret'.id \notin DOMAIN backupDirs'
          /\ backupDirs' = RemoveDir(backupDirs, wret'.id)
          /\ wret'.id \notin DOMAIN backupDirs => backupDirs' = backupDirs
          /\ worldDirs' = worldDirs
          /\ worldManifest' = worldManifest]_vars

C26_Witness ==
    /\ wret.op = "DeleteBackup" /\ wret.code = "ok"
    /\ wret.id = <<"nosuch">>
    /\ DOMAIN backupDirs # {}

\* C27: every successful BackupWorld produces a backup id and directory of
\* its own: the directory did not exist before the call (a later backup
\* never writes into the directory of an earlier one), it holds exactly
\* the files of its source world, and every earlier backup is as it was.
C27_BackupsNeverCollide ==
    [][(wret'.op = "BackupWorld" /\ wret'.code = "ok") =>
          /\ wret'.id \notin DOMAIN backupDirs
          /\ wret'.id \in DOMAIN backupDirs'
          /\ backupDirs'[wret'.id].files = worldDirs[wret'.world.BackupOf].files
          /\ \A b \in DOMAIN backupDirs : b \in DOMAIN backupDirs' /\ backupDirs'[b] = backupDirs[b]]_vars

\* C28: whenever ScanWorlds returns a list without error, the persisted
\* world manifest holds exactly that list, in the same order: the merged
\* catalog is persisted before it is returned, and a failure to persist is
\* not reported as success.
C28_ScanPersistsBeforeReturning ==
    (wret.op = "ScanWorlds" /\ wret.code = "ok") =>
        /\ worldManifest.state = "ok"
        /\ worldManifest.cat.worlds = wret.worlds

\* Every row of the catalog before is a row of the catalog after.
RowsKept(before, after) ==
    \A i \in 1..Len(before) : \E j \in 1..Len(after) : after[j] = before[i]

\* C29: ToggleMod, RemoveMod, RenameWorld, DeleteWorld, BackupWorld and
\* RestoreBackup called with an id that matches no entry (no backup, for
\* RestoreBackup) return a not-found error and are no-ops: no file or
\* directory is created, deleted or renamed and every existing catalog row
\* is left as it was.  (A step that leaves pc alone is a world call.)
C29_NotFoundIsNoOp ==
    [][/\ \A p \in Procs :
            (/\ pc[p] = "load" /\ pc'[p] # "load"
             /\ op[p].kind \in {"toggle", "remove"}
             /\ IndexOfID(ModLoadManifest(modManifest).cat.mods, op[p].modID) = 0) =>
                /\ pc'[p] = "idle" /\ ret'[p] = "err_notfound"
                /\ modFiles' = modFiles
                /\ modManifest' = modManifest
       /\ (/\ pc' = pc
           /\ \/ wret'.op \in {"RenameWorld", "DeleteWorld"}
              \/ wret'.op = "BackupWorld" /\ wret'.code = "err_notfound"
           /\ wret'.id \notin DOMAIN worldDirs
           /\ wret'.id \notin WorldIdSet(ManifestWorlds)) =>
                /\ wret'.code = "err_notfound"
                /\ worldDirs' = worldDirs
                /\ backupDirs' = backupDirs
                /\ RowsKept(ManifestWorlds, ManifestWorlds')
       /\ (/\ pc' = pc
           /\ wret'.op = "RestoreBackup"
           /\ wret'.id \notin DOMAIN backupDirs
           /\ wret'.code # "ok") =>
                /\ wret'.code = "err_notfound"
                /\ worldDirs' = worldDirs
                /\ backupDirs' = backupDirs
                /\ worldManifest' = worldManifest]_vars

----------------------------------------------------------------------------
(* The manifests on disk: encoding/json as LoadManifest and SaveManifest
   use it.  A JSON object is a function from the keys it has to their
   values; the "mods" / "worlds" value is null or an array of objects. *)

JNull == [kind |-> "null", items |-> <<>>]
JArray(s) == [kind |-> "array", items |-> s]

\* json.Unmarshal of one struct field: the zero value stays when the
\* object has no such key.
Field(o, k, zero) == IF k \in DOMAIN o THEN o[k] ELSE zero

ModKeys == {"id", "version", "curseforgeId", "enabled", "installedAt", "updatedAt", "filePath"}

\* json.MarshalIndent of a Mod: every field under its tag, curseforgeId
\* (omitempty) only when it is not 0.
MarshalMod(m) ==
    [k \in ModKeys \ (IF m.CurseForgeID = 0 THEN {"curseforgeId"} ELSE {}) |->
        CASE k = "id" -> m.ID
          [] k = "version" -> m.Version
          [] k = "curseforgeId" -> m.CurseForgeID
          [] k = "enabled" -> m.Enabled
          [] k = "installedAt" -> m.InstalledAt
          [] k = "updatedAt" -> m.UpdatedAt
          [] k = "filePath" -> m.FilePath]

\* json.Unmarshal into a Mod.
UnmarshalMod(o) ==
    [ID |-> Field(o, "id", NoMod.ID), Version |-> Field(o, "version", NoMod.Version),
     CurseForgeID |-> Field(o, "curseforgeId", 0), Enabled |-> Field(o, "enabled", FALSE),
     InstalledAt |-> Field(o, "installedAt", NoMod.InstalledAt),
     UpdatedAt |-> Field(o, "updatedAt", NoMod.UpdatedAt),
     FilePath |-> Field(o, "filePath", NoMod.FilePath)]

\* SaveManifest's document with the version of a new catalog instead of the
\* version of the catalog it is given.
MarshalModManifestNewVersion(cat) ==
    [k \in {"mods", "version"} |->
        IF k = "version" THEN EmptyModCat.version
        ELSE IF cat.null THEN JNull
        ELSE JArray([i \in 1..Len(cat.mods) |-> MarshalMod(cat.mods[i])])]

\* json.MarshalIndent of a ModManifest: a nil slice is written as null.
MarshalModManifest(cat) ==
    [k \in {"mods", "version"} |->
        IF k = "version" THEN cat.version
        ELSE IF cat.null THEN JNull
        ELSE JArray([i \in 1..Len(cat.mods) |-> MarshalMod(cat.mods[i])])]

\* json.Unmarshal into a ModManifest: without a "mods" array the slice
\* stays nil, without a "version" the string stays empty.
UnmarshalModManifest(doc) ==
    LET v == Field(doc, "mods", JNull) IN
    [mods |-> [i \in 1..Len(v.items) |-> UnmarshalMod(v.items[i])],
     null |-> v.kind = "null",
     version |-> Field(doc, "version", "")]

\* The manifest file holding a document: of a file that parses the model
\* keeps what it decodes to.
ModFileHolding(doc) == OkFile(UnmarshalModManifest(doc))

WorldKeys ==
    {"id", "name", "path", "createdAt", "lastPlayed", "sizeBytes", "gameMode", "seed",
     "isBackup", "backupOf"}

\* json.MarshalIndent of a World: seed and backupOf are omitempty.
MarshalWorld(w) ==
    [k \in WorldKeys \ ((IF w.Seed = "" THEN {"seed"} ELSE {})
                           \cup (IF w.BackupOf = <<>> THEN {"backupOf"} ELSE {})) |->
        CASE k = "id" -> w.ID
          [] k = "name" -> w.Name
          [] k = "path" -> w.Path
          [] k = "createdAt" -> w.CreatedAt
          [] k = "lastPlayed" -> w.LastPlayed
          [] k = "sizeBytes" -> w.SizeBytes
          [] k = "gameMode" -> w.GameMode
          [] k = "seed" -> w.Seed
          [] k = "isBackup" -> w.IsBackup
          [] k = "backupOf" -> w.BackupOf]

\* json.Unmarshal into a World.
UnmarshalWorld(o) ==
    [ID |-> Field(o, "id", NoWorld.ID), Name |-> Field(o, "name", NoWorld.Name),
     Path |-> Field(o, "path", NoWorld.Path),
     CreatedAt |-> Field(o, "createdAt", NoWorld.CreatedAt),
     LastPlayed |-> Field(o, "lastPlayed", NoWorld.LastPlayed),
     SizeBytes |-> Field(o, "sizeBytes", 0), GameMode |-> Field(o, "gameMode", ""),
     Seed |-> Field(o, "seed", ""), IsBackup |-> Field(o, "isBackup", FALSE),
     BackupOf |-> Field(o, "backupOf", NoWorld.BackupOf)]

\* json.MarshalIndent of a WorldManifest.
MarshalWorldManifest(cat) ==
    [k \in {"worlds", "version"} |->
        IF k = "version" THEN cat.version
        ELSE IF cat.null THEN JNull
        ELSE JArray([i \in 1..Len(cat.worlds) |-> MarshalWorld(cat.worlds[i])])]

\* json.Unmarshal into a WorldManifest.
UnmarshalWorldManifest(doc) ==
    LET v == Field(doc, "worlds", JNull) IN
    [worlds |-> [i \in 1..Len(v.items) |-> UnmarshalWorld(v.items[i])],
     null |-> v.kind = "null",
     version |-> Field(doc, "version", "")]

WorldFileHolding(doc) == OkWorldFile(UnmarshalWorldManifest(doc))

\* mods.LoadManifest, then mods.SaveManifest of the catalog it returned.
ModSaveLoaded(p, saveOk) ==
    /\ AllIdle
    /\ LET r == ModLoadManifest(modManifest) IN
       IF ~r.ok
       THEN /\ ret' = [ret EXCEPT ![p] = "err_load"]
            /\ modManifest' = modManifest
       ELSE IF ~saveOk
       THEN /\ ret' = [ret EXCEPT ![p] = "err_save"]
            /\ modManifest' = modManifest
       ELSE /\ ret' = [ret EXCEPT ![p] = "ok"]
            /\ modManifest' = ModFileHolding(MarshalModManifest(r.cat))
    /\ UNCHANGED <<worldVars, now, modFiles, pc, op, runs, pre, updates, cfret>>

\* worlds.LoadManifest, then worlds.SaveManifest of the catalog it returned.
WorldSaveLoaded(saveOk) ==
    /\ LET r == WorldLoadManifest(worldManifest) IN
       IF ~r.ok
       THEN /\ wret' = Result("SaveManifest", "err_load", <<>>, <<>>, NoWorld)
            /\ worldManifest' = worldManifest
       ELSE IF ~saveOk
       THEN /\ wret' = Result("SaveManifest", "err_save", <<>>, r.cat.worlds, NoWorld)
            /\ worldManifest' = worldManifest
       ELSE /\ wret' = Result("SaveManifest", "ok", <<>>, r.cat.worlds, NoWorld)
            /\ worldManifest' = WorldFileHolding(MarshalWorldManifest(r.cat))
    /\ UNCHANGED <<modVars, now, worldDirs, backupDirs>>

\* The manifests a user, or an earlier version of the program, can have
\* left: objects as SaveManifest writes them, and objects with keys
\* missing or with an explicit zero.
SavedMod ==
    [ID |-> ModID(1), Version |-> <<"a", 1>>, CurseForgeID |-> 1, Enabled |-> FALSE,
     InstalledAt |-> 1, UpdatedAt |-> 1, FilePath |-> <<"mods", "a", "jar", "disabled">>]

ModObjects ==
    {MarshalMod(SavedMod), MarshalMod(LocalMod),
     [k \in {"id", "curseforgeId", "filePath"} |->
        CASE k = "id" -> <<"hand">>
          [] k = "curseforgeId" -> 0
          [] k = "filePath" -> <<"h", "jar">>]}

Versions == {"1.0", "2.0"}

ModDocuments ==
    LET values == {JNull} \cup {JArray(s) : s \in SeqsUpTo(ModObjects, MaxFiles)} IN
    {[k \in {"mods", "version"} |-> IF k = "mods" THEN v ELSE ver] :
        v \in values, ver \in Versions}
    \cup {[k \in {"mods"} |-> v] : v \in values}
    \cup {[k \in {"version"} |-> ver] : ver \in Versions}

ModManifestFiles == {AbsentFile, PartialFile} \cup {ModFileHolding(d) : d \in ModDocuments}

SavedWorldRow ==
    [ID |-> <<"w1">>, Name |-> <<"n">>, Path |-> WorldPath(<<"w1">>), CreatedAt |-> 0,
     LastPlayed |-> 1, SizeBytes |-> 3, GameMode |-> "Survival", Seed |-> "s",
     IsBackup |-> TRUE, BackupOf |-> <<"w2">>]

WorldObjects ==
    {MarshalWorld(SavedWorldRow),
     MarshalWorld(ScannedWorld(<<"w2">>, Dir([f \in {"level.dat"} |-> 1], 0), <<>>)),
     [k \in {"id", "seed"} |-> IF k = "id" THEN <<"hand">> ELSE ""]}

WorldDocuments ==
    LET values == {JNull} \cup {JArray(s) : s \in SeqsUpTo(WorldObjects, MaxFiles)} IN
    {[k \in {"worlds", "version"} |-> IF k = "worlds" THEN v ELSE ver] :
        v \in values, ver \in Versions}
    \cup {[k \in {"worlds"} |-> v] : v \in values}
    \cup {[k \in {"version"} |-> ver] : ver \in Versions}

WorldManifestFiles ==
    {AbsentWorldFile, PartialWorldFile} \cup {WorldFileHolding(d) : d \in WorldDocuments}

UserWritesModManifest(f) ==
    /\ AllIdle
    /\ f # modManifest
    /\ modManifest' = f
    /\ ret' = [p \in Procs |-> "none"]
    /\ UNCHANGED <<worldVars, now, modFiles, pc, op, runs, pre, updates, cfret>>

UserWritesWorldManifest(f) ==
    /\ f # worldManifest
    /\ worldManifest' = f
    /\ wret' = NoResult
    /\ UNCHANGED <<modVars, now, worldDirs, backupDirs>>

\* Load and save again, of every manifest file there can be.
ResaveNext ==
    \/ \E f \in ModManifestFiles : UserWritesModManifest(f)
    \/ \E f \in WorldManifestFiles : UserWritesWorldManifest(f)
    \/ \E saveOk \in BOOLEAN : ModSaveLoaded(1, saveOk)
    \/ \E saveOk \in BOOLEAN : WorldSaveLoaded(saveOk)

ResaveSpec == ModInit /\ [][ResaveNext]_vars

SameModCatalog(a, b) == a.mods = b.mods /\ a.version = b.version

SameWorldCatalog(a, b) == a.worlds = b.worlds /\ a.version = b.version

\* C30: saving the catalog LoadManifest returned and loading again gives the
\* same entries in the same order with the same field values and the same
\* version, for the mod manifest and the world manifest, a catalog of zero
\* entries included.
C30_SaveAfterLoadIsFixedPoint ==
    [][/\ (ModSaveLoaded(1, TRUE) /\ ModLoadManifest(modManifest).ok) =>
            /\ ModLoadManifest(modManifest').ok
            /\ SameModCatalog(ModLoadManifest(modManifest).cat,
                              ModLoadManifest(modManifest').cat)
       /\ (WorldSaveLoaded(TRUE) /\ WorldLoadManifest(worldManifest).ok) =>
            /\ WorldLoadManifest(worldManifest').ok
            /\ SameWorldCatalog(WorldLoadManifest(worldManifest).cat,
                                WorldLoadManifest(worldManifest').cat)]_vars

\* A mod manifest of two entries and a version of its own, and a world
\* manifest of zero entries, both saved again after a load.
C30_Witness ==
    /\ ret[1] = "ok"
    /\ Len(modManifest.cat.mods) = 2
    /\ modManifest.cat.version = "2.0"
    /\ wret.op = "SaveManifest" /\ wret.code = "ok"
    /\ worldManifest.state = "ok"
    /\ worldManifest.cat.worlds = <<>>

----------------------------------------------------------------------------
(* Timestamps as strings *)

\* The local zones of the model: the wall clock is up to MaxZoneLag seconds
\* behind UTC (offset 0 is UTC itself).
LocalZones == (0 - MaxZoneLag)..0

\* t.Format(time.RFC3339) of the wall-clock second wall in the zone of
\* offset z: the date and time digits, then "Z" for UTC or the sign and the
\* digits of the offset.  Every part has a fixed width, so a string is kept
\* as its parts; the sign is kept as its ASCII code.
RFC3339(wall, z) ==
    <<wall, IF z = 0 THEN 90 ELSE IF z > 0 THEN 43 ELSE 45, IF z < 0 THEN 0 - z ELSE z>>

\* The instant (UTC second) a wall-clock second of the zone z denotes.
InstantOf(wall, z) == wall - z

\* a > b on strings of equal layout: the first part that differs decides.
StringGreater(a, b) ==
    \E i \in 1..Len(a) : a[i] > b[i] /\ \A j \in 1..(i - 1) : a[j] = b[j]

\* The timestamps of a state when the local zone is z, each with the
\* instant it was produced for: UpdatedAt and InstalledAt of the manifest
\* entries DownloadMod built, and the fileDate of the files the service
\* lists (UTC).
StampsIn(z) ==
    LET mods == ModLoadManifest(modManifest).cat.mods IN
    {[s |-> RFC3339(mods[i].UpdatedAt, z), t |-> InstantOf(mods[i].UpdatedAt, z)] :
        i \in {j \in 1..Len(mods) : mods[j].CurseForgeID # 0}}
    \cup {[s |-> RFC3339(f.FileDate, 0), t |-> f.FileDate] : f \in PublishedFiles}

\* C31: for every local time-zone offset, any two timestamps the program
\* stores or compares are ordered as strings exactly as they are ordered in
\* time.
C31_StringOrderIsTimeOrder ==
    \A z \in LocalZones :
        \A a, b \in StampsIn(z) : StringGreater(a.s, b.s) <=> a.t > b.t

----------------------------------------------------------------------------
(* Order of the scanned list *)

\* os.ReadDir returns the entries sorted by file name.
ReadDirOrder == <<<<"w1">>, <<"w2">>>>

\* a sorts before b as a directory name.
IDBefore(a, b) ==
    \E i, j \in 1..Len(ReadDirOrder) : i < j /\ ReadDirOrder[i] = a /\ ReadDirOrder[j] = b

----------------------------------------------------------------------------
(* Selection of the file to install *)

\* The files of a list whose FileDate no other file of the list exceeds.
NewestOf(files) ==
    {files[k] : k \in {j \in 1..Len(files) :
                        \A l \in 1..Len(files) : files[l].FileDate <= files[j].FileDate}}

\* C33: DownloadMod selects a file of the greatest FileDate of the list, in
\* whatever order the list comes (the call is refused only when a newest
\* file has no download URL); the entry it registers has that file's
\* display name as Version and that file's name in the mods directory as
\* FilePath, and the file is on disk.
C33_NewestFileIsInstalled ==
    [][/\ \A p \in Procs, i \in Items, fs \in SeqsUpTo(RemoteFiles, MaxFiles) :
            (fs # <<>> /\ BeginDownload(p, i, fs)) =>
                IF pc'[p] = "xfer_start"
                THEN op'[p].file \in NewestOf(fs) /\ op'[p].dest = op'[p].file.FileName
                ELSE /\ ret'[p] = "err_validation"
                     /\ \E f \in NewestOf(fs) : ~f.HasURL
       /\ \A p \in Procs :
            (op[p].kind = "download" /\ SaveWrite(p)) =>
                LET mods == ModLoadManifest(modManifest').cat.mods
                    k == IndexOfID(mods, ModID(op[p].item))
                IN /\ k # 0
                   /\ mods[k].Version = op[p].file.DisplayName
                   /\ mods[k].FilePath = op[p].file.FileName
                   /\ FsHas(modFiles', mods[k].FilePath)
                   /\ modFiles'[mods[k].FilePath] = FullContent(op[p].item)]_vars

\* The newer b.jar of item 1 is installed and registered.
C33_Witness ==
    /\ ret[1] = "ok"
    /\ modManifest.state = "ok"
    /\ \E k \in 1..Len(modManifest.cat.mods) :
        /\ modManifest.cat.mods[k].ID = ModID(1)
        /\ modManifest.cat.mods[k].Version = <<"b", 2>>
        /\ modManifest.cat.mods[k].FilePath = <<"b", "jar">>
    /\ FsHas(modFiles, <<"b", "jar">>)
    /\ modFiles[<<"b", "jar">>] = FullContent(1)

----------------------------------------------------------------------------
(* Frame of RemoveMod *)

\* A list without its k-th element, the others in their order.
WithoutIndex(s, k) == [j \in 1..(Len(s) - 1) |-> IF j < k THEN s[j] ELSE s[j + 1]]

\* C34: RemoveMod(id) removes from the manifest only the entry of that id,
\* the others keeping their order, and deletes from disk only the file at
\* that entry's FilePath: the file of every other entry stays as it is,
\* wherever the removed entry stands in the manifest.
C34_RemoveTouchesOnlyItsEntry ==
    [][\A p \in Procs :
        LET mods == ModLoadManifest(modManifest).cat.mods
            k == IndexOfID(mods, op[p].modID)
        IN
        /\ (op[p].kind = "remove" /\ k # 0 /\ LoadStep(p)) =>
                op'[p].cat.mods = WithoutIndex(mods, k)
        /\ (op[p].kind = "remove" /\ k # 0 /\ RmFileStep(p)) =>
                /\ modFiles' = FsRemove(modFiles, mods[k].FilePath)
                /\ \A j \in 1..Len(mods) :
                        (j # k /\ FsHas(modFiles, mods[j].FilePath)) =>
                            /\ FsHas(modFiles', mods[j].FilePath)
                            /\ modFiles'[mods[j].FilePath] = modFiles[mods[j].FilePath]]_vars

----------------------------------------------------------------------------
(* The world operations over every state of the manifest file *)

\* The manifest file is absent, valid (written by ScanWorlds), or one that
\* LoadManifest fails on (left by an interrupted write, or edited).
DamagedNext ==
    \/ \E f \in {AbsentWorldFile, PartialWorldFile} : UserWritesWorldManifest(f)
    \/ \E n \in WorldNames : GameCreatesWorld(n, [f \in {"level.dat"} |-> 1])
    \/ \E n \in WorldNames : UserRemovesWorld(n)
    \/ \E saveOk \in BOOLEAN : ScanWorlds(saveOk)
    \/ \E id \in WorldIDs, scanSaveOk, saveOk \in BOOLEAN : DeleteWorld(id, scanSaveOk, saveOk)
    \/ \E id \in WorldIDs, scanSaveOk \in BOOLEAN :
            BackupWorld(id, scanSaveOk, IF id \in DOMAIN worldDirs
                                        THEN FilesToCopy(worldDirs[id]) ELSE 0)
    \/ Tick

DamagedSpec == WorldInit /\ [][DamagedNext]_vars

\* C35: ScanWorlds, and DeleteWorld and BackupWorld through GetWorld, end
\* with a world list or an error whatever the manifest file is; none of
\* them aborts the process.
C35_ScanNeverAborts ==
    wret.op \in {"ScanWorlds", "DeleteWorld", "BackupWorld"} => wret.code # "panic"

\* C36: no two entries of the mod manifest have the same FilePath, so each
\* entry refers to a file of its own.
C36_FilePathsAreDistinct ==
    modManifest.state = "ok" =>
        \A i, j \in 1..Len(modManifest.cat.mods) :
            modManifest.cat.mods[i].FilePath = modManifest.cat.mods[j].FilePath => i = j

----------------------------------------------------------------------------
(* Updates and re-installs of one item *)

\* One caller installs, updates, toggles and removes item 1, one call at a
\* time; every transfer and every save completes.  The item's newest file
\* changes as files are published.
ReinstallNext ==
    \/ \E f \in {g \in PublishedFiles : g.HasURL} :
          AllIdle /\ UNCHANGED <<runs, pre>> /\ BeginDownload(1, 1, <<f>>)
    \/ \E e \in BOOLEAN :
          AllIdle /\ UNCHANGED <<runs, pre>> /\ BeginToggle(1, ModID(1), e)
    \/ AllIdle /\ UNCHANGED <<runs, pre>> /\ BeginRemove(1, ModID(1))
    \/ \E p \in Procs : LoadStep(p)
    \/ \E p \in Procs : RenameStep(p)
    \/ \E p \in Procs : RmFileStep(p)
    \/ \E p \in Procs : XferStart(p)
    \/ \E p \in Procs : XferOk(p)
    \/ \E p \in Procs : SaveOpen(p)
    \/ \E p \in Procs : SaveWrite(p)
    \/ Tick

ReinstallSpec == ModInit /\ [][ReinstallNext]_vars

\* C37: between calls, every file in the mods directory is the FilePath of
\* exactly one manifest entry; an update or re-install leaves no file of
\* the replaced version behind.
C37_NoOrphanedFiles ==
    AllIdle =>
        LET mods == ModLoadManifest(modManifest).cat.mods IN
        \A path \in DOMAIN modFiles :
            Cardinality({k \in 1..Len(mods) : mods[k].FilePath = path}) = 1

----------------------------------------------------------------------------
(* Names and ids that are paths *)

\* Strings a caller can pass where a name or an id is expected: the empty
\* string, and one that leads out of the backups root.
PathIDs == {<<>>, <<"../worlds/">>}

\* Two saved worlds; scans, renames of them to any display name, backups
\* of them, and DeleteBackup of any string, one call at a time, every copy
\* and save succeeding.
PathNext ==
    \/ ScanWorlds(TRUE)
    \/ \E id \in WorldNames, n \in DisplayNames \cup {<<"../worlds/">>} : RenameWorld(id, n, TRUE)
    \/ \E id \in WorldNames \cap DOMAIN worldDirs :
            BackupWorld(id, TRUE, FilesToCopy(worldDirs[id]))
    \/ \E b \in BackupIDs \cup PathIDs : DeleteBackup(b)
    \/ Tick

PathSpec == RoundTripInit /\ [][PathNext]_vars

\* C38: DeleteBackup(backupId) removes nothing but the directory of that
\* name directly under the backups root, whatever string backupId is: every
\* other backup, every world directory and the world manifest stay.
C38_DeleteBackupStaysInRoot ==
    [][wret'.op = "DeleteBackup" =>
          /\ worldDirs' = worldDirs
          /\ worldManifest' = worldManifest
          /\ \A b \in DOMAIN backupDirs :
                b # wret'.id => b \in DOMAIN backupDirs' /\ backupDirs'[b] = backupDirs[b]]_vars

\* C39: BackupWorld writes only inside one directory directly under the
\* backups root, whatever display name the world has: the worlds root and
\* every other backup are as they were.
C39_BackupStaysInRoot ==
    [][(wret'.op = "BackupWorld" /\ wret'.code \in {"ok", "err_copy"}) =>
          /\ worldDirs' = worldDirs
          /\ wret'.code = "ok" => wret'.id \in DOMAIN backupDirs'
          /\ \A b \in DOMAIN backupDirs :
                b # wret'.id => b \in DOMAIN backupDirs' /\ backupDirs'[b] = backupDirs[b]]_vars

\* C40: the world a successful RestoreBackup registered is still registered
\* after the next ScanWorlds, with the id, the Name and the CreatedAt that
\* RestoreBackup returned, whatever directory of the backups root was
\* restored.
C40_RestoredWorldSurvivesScan ==
    [][(/\ wret.op = "RestoreBackup" /\ wret.code = "ok"
        /\ wret'.op = "ScanWorlds" /\ wret'.code = "ok") =>
            \E i \in 1..Len(wret'.worlds) :
                /\ wret'.worlds[i].ID = wret.world.ID
                /\ wret'.worlds[i].Name = wret.world.Name
                /\ wret'.worlds[i].CreatedAt = wret.world.CreatedAt]_vars

====
